---- MODULE Spec2Model ----
(***************************************************************************)
(* Model of the a2a-server task execution engine: CoderAgentExecutor       *)
(* (execute, cancelTask, createTask, reconstruct) driving Task instances,  *)
(* the event bus of every request and the checkpoint store, and of the     *)
(* GCSTaskStore that persists checkpoints in a bucket (SpecStore).         *)
(* SpecLive is the engine under the progress its collaborators give.       *)
(*                                                                         *)
(* Every action is one run-to-completion segment of the single-threaded    *)
(* event loop: the code between two awaits on external I/O.  A resolved    *)
(* promise's continuation runs before the next external event, so actions  *)
(* that stand for external events are guarded by Quiet.                    *)
(***************************************************************************)
EXTENDS Integers, Sequences, FiniteSets, TLC

\* ---------------------------------------------------------------- bounds
MaxInv == 2        \* execute invocations
MaxCancel == 1     \* cancelTask invocations
MaxTools == 2      \* tool-call requests the model emits in one behaviour
MaxContent == 1    \* content events the model emits in one behaviour
MaxFaults == 1     \* collaborator failures injected in one behaviour
MaxOps == 2        \* save and load calls on the GCS store in one behaviour
MaxHist == 2       \* messages in the history of a saved task

Inv == 1..MaxInv
Can == 1..MaxCancel
TaskIds == {"T1", "T2"}
\* the task ids execute requests name; "T2" is never registered
ExecIds == {"T1"}
NoTask == 0

\* userMessage.contextId of request i, and the contextId of the persisted snapshot
Contexts == {"C1", "C2"}
MsgContext(i) == IF i = 1 THEN "C1" ELSE "C2"
SnapshotContext == "C1"

\* event bus of execute invocation i / of cancelTask invocation c
ExecBus(i) == i
CancelBus(c) == MaxInv + c
Bus == 1..(MaxInv + MaxCancel)

ToolStatus == {"pending", "success", "error", "cancelled"}
\* what a request's persisted snapshot (requestContext.task) can be
SdkKinds == {"none", "nostate", "input-required", "completed", "canceled"}

VARIABLES
  tasks,          \* CoderAgentExecutor.tasks: task id -> Task instance (0: absent)
  executingTasks, \* CoderAgentExecutor.executingTasks
  hasStore,       \* whether the executor was constructed with a taskStore
  store,          \* taskStore: task id -> saved lifecycle state ("none": nothing saved)
  taskState,      \* Task.taskState, per instance
  contextId,      \* Task.contextId, per instance ("none": not built yet)
  pendingTools,   \* Task's tool-call records, per instance: sequence of statuses
  taskBus,        \* Task.eventBus, per instance
  history,        \* Task history, per instance
  modelCalls,     \* number of model streams opened, per instance
  scheduled,      \* the tool-call requests handed to the scheduler, in order, per instance
  pc,             \* position of each execute invocation
  tid,            \* taskId of each execute invocation
  sdk,            \* requestContext.task of each execute invocation
  cur,            \* currentTask of each execute invocation
  mode,           \* "loop": ran the turn-loop, "absorb": joined a running loop
  aborted,        \* abortSignal.aborted of each execute invocation
  listening,      \* socket 'close' listener still attached (requests come through requestStorage)
  closedAt,       \* where the invocation was when its socket closed
  reqs,           \* toolCallRequests of the current loop iteration (request ids)
  emitted,        \* <<tool requests, content events>> the model has emitted so far
  cpc,            \* position of each cancelTask invocation
  ctid,           \* taskId of each cancelTask invocation
  cfault,         \* which step of the cancellation path failed
  csnap,          \* the checkpoint a cancelTask invocation is saving
  busEvents,      \* events published, per event bus
  faults,         \* failures injected so far
  rt,             \* a Task that is checkpointed (toSDKTask) and reconstructed
  client,         \* which debugging client source runs: "cli" or "part_000"
  currentTaskId,  \* the client's current task id ("null": none)
  currentContextId, \* the client's current context id ("null": none)
  workspacePath,  \* the client's workspace path ("unset": none)
  sent,           \* the last message the client has sent
  variant,        \* which GCSTaskStore source is running: "indexed" or "log"
  index,          \* bucket: tasks/<taskId>/contextId.txt, per task id
  taskObjects,    \* bucket: contexts/<contextId>/<taskId>/task.json
  workspaces,     \* bucket: contexts/<contextId>/<taskId>/workspace.tar.gz
  contextHistory, \* bucket: contexts/<contextId>/context_history.json
  files,          \* local file system: the file names in each directory
  cwd,            \* process.cwd()
  ops             \* the save and load calls on the GCS store

vars == <<tasks, executingTasks, hasStore, store, taskState, contextId, pendingTools, taskBus,
          history, modelCalls, scheduled, pc, tid, sdk, cur, mode, aborted,
          listening, closedAt, reqs, emitted, cpc, ctid, cfault, csnap, busEvents, faults,
          variant, index, taskObjects, workspaces, contextHistory, files, cwd, ops, rt,
          client, currentTaskId, currentContextId, workspacePath, sent>>

execVars == <<pc, tid, sdk, cur, mode, aborted, listening, closedAt, reqs, emitted>>
cancelVars == <<cpc, ctid, cfault, csnap>>
taskVars == <<taskState, pendingTools, taskBus, history, modelCalls, scheduled>>
gcsVars == <<variant, index, taskObjects, workspaces, contextHistory, files, cwd, ops>>
engineVars == <<tasks, executingTasks, hasStore, store, contextId, taskVars, execVars,
                cancelVars, busEvents>>
clientVars == <<client, currentTaskId, currentContextId, workspacePath, sent>>
otherVars == <<rt, clientVars>>

\* ---------------------------------------------------------------- helpers
Terminal(s) == s \in {"completed", "canceled", "failed"}

\* the check that lets a completed task run again
IsFinalForExecuteNotCompleted(s) == s \in {"canceled", "failed"}

\* executor.ts:372
IsFinalForExecute(s) == s \in {"canceled", "failed", "completed"}

\* executor.ts:182
IsFinalForCancel(s) == s \in {"canceled", "failed"}

StatusEvent(by, t, c, s, f, x) ==
  [by |-> by, task |-> t, ctx |-> c, state |-> s, final |-> f, text |-> x]

Publish(be, bus, e) == [be EXCEPT ![bus] = Append(@, e)]

PublishAll(be, bus, es) == [be EXCEPT ![bus] = @ \o es]

\* Task.cancelPendingTools: every record still pending becomes cancelled
CancelPendingTools(p) == [k \in DOMAIN p |-> IF p[k] = "pending" THEN "cancelled" ELSE p[k]]

NoPending(p) == \A k \in DOMAIN p : p[k] # "pending"

\* the batch taken as cancelled as soon as one of its calls is
AllCancelledSome(p) == \E k \in DOMAIN p : p[k] = "cancelled"

\* executor.ts:430
AllCancelled(p) == \A k \in DOMAIN p : p[k] = "cancelled"

\* an invocation whose awaited promise is resolved: its continuation runs next
Ready(i) == pc[i] = "waiting" /\ (aborted[i] \/ NoPending(pendingTools[cur[i]]))

Quiet == \A i \in Inv : ~Ready(i)

\* the executor after construction: nothing registered, no request in flight
EngineIdle ==
  /\ tasks = [t \in TaskIds |-> NoTask]
  /\ executingTasks = {}
  /\ store = [t \in TaskIds |-> "none"]
  /\ taskState = [i \in Inv |-> "submitted"]
  /\ contextId = [i \in Inv |-> "none"]
  /\ pendingTools = [i \in Inv |-> <<>>]
  /\ taskBus = [i \in Inv |-> ExecBus(i)]
  /\ history = [i \in Inv |-> <<>>]
  /\ modelCalls = [i \in Inv |-> 0]
  /\ scheduled = [i \in Inv |-> <<>>]
  /\ pc = [i \in Inv |-> "idle"]
  /\ tid = [i \in Inv |-> "T1"]
  /\ sdk = [i \in Inv |-> "none"]
  /\ cur = [i \in Inv |-> i]
  /\ mode = [i \in Inv |-> "none"]
  /\ aborted = [i \in Inv |-> FALSE]
  /\ listening = [i \in Inv |-> FALSE]
  /\ closedAt = [i \in Inv |-> "none"]
  /\ reqs = [i \in Inv |-> <<>>]
  /\ emitted = <<0, 0>>
  /\ cpc = [c \in Can |-> "idle"]
  /\ ctid = [c \in Can |-> "T1"]
  /\ cfault = [c \in Can |-> "none"]
  /\ csnap = [c \in Can |-> "none"]
  /\ busEvents = [b \in Bus |-> <<>>]
  /\ faults = 0

\* ---------------------------------------------------------------- GCS store data
Variants == {"indexed", "log"}
Dirs == {"ws1", "ws2"}
Files == {"a", "b"}
MsgIds == {"m1", "m2"}
NoContext == ""
Ops == 1..MaxOps

\* the histories a saved task can carry: message ids, possibly repeated
Histories == UNION {[1..n -> MsgIds] : n \in 0..MaxHist}

\* the lifecycle state of a saved task: submitted until it holds a message
SavedState(h) == IF h = <<>> THEN "submitted" ELSE "input-required"

\* an SDK task as handed to save; persisted: its metadata holds the
\* __persistedState block (agent settings and lifecycle state)
SdkTask(t, c, st, h, p) ==
  [id |-> t, contextId |-> c, state |-> st, history |-> h, persisted |-> p]
NoSdkTask == SdkTask("none", NoContext, "none", <<>>, FALSE)

\* part_001:94 and 367: JSON.stringify(task), the fields in document order
ToJson(task) == <<task.id, task.contextId, task.state, task.history, task.persisted>>
\* part_001:201 and 501: JSON.parse of the task object
FromJson(j) ==
  [id |-> j[1], contextId |-> j[2], state |-> j[3], history |-> j[4], persisted |-> j[5]]
NoObject == <<>>

\* part_001:68-70, 331-337: the objects of a task live under (contextId, taskId)
TaskKeys == (Contexts \X TaskIds)

IdleOp ==
  [kind |-> "none", pc |-> "idle", id |-> "none", task |-> NoSdkTask, dir |-> "none",
   ctx |-> NoContext, log |-> <<>>, news |-> <<>>, result |-> "none", after |-> {},
   writes |-> <<>>, via |-> "real"]

\* the bucket is empty and no call is in flight
GcsEmpty ==
  /\ index = [t \in TaskIds |-> NoContext]
  /\ taskObjects = [k \in TaskKeys |-> NoObject]
  /\ workspaces = [k \in TaskKeys |-> {}]
  /\ contextHistory = [c \in Contexts |-> <<>>]
  /\ ops = [o \in Ops |-> IdleOp]

\* ---------------------------------------------------------------- checkpoint data
\* A2A message roles; "tool" stands for any role other than user and agent
Roles == {"user", "agent", "tool"}
\* a message part: a text part, or a part of another kind that has no text
Parts == {[kind |-> "text", text |-> "a"], [kind |-> "text", text |-> "b"],
          [kind |-> "file", text |-> "undefined"]}
Messages == [role : Roles, part : Parts]
TaskHistories == UNION {[1..n -> Messages] : n \in 0..MaxHist}
TaskStates == {"submitted", "working", "input-required", "completed"}

\* the fields of a Task that a checkpoint carries
RuntimeTask(t, c, st, settings, h) ==
  [id |-> t, contextId |-> c, taskState |-> st, agentSettings |-> settings, history |-> h]
NoRuntimeTask == RuntimeTask("none", "none", "none", "none", <<>>)

\* no Task is being checkpointed
NoRoundTrip ==
  [pc |-> "idle", task |-> NoRuntimeTask, sdkTask |-> "none",
   runtimeTask |-> NoRuntimeTask, session |-> <<>>, registered |-> "none"]

\* ---------------------------------------------------------------- client data
NoId == "null"
NoMessage == [taskId |-> NoId, contextId |-> NoId, settings |-> FALSE, text |-> "none"]

\* client-cli.ts:48-49, part_000:38-39: the client knows no task and no context
ClientIdle ==
  /\ currentTaskId = NoId
  /\ currentContextId = NoId
  /\ sent = NoMessage

OthersIdle ==
  /\ rt = NoRoundTrip
  /\ client = "cli"
  /\ workspacePath = "ws1"
  /\ ClientIdle

Init ==
  /\ hasStore \in BOOLEAN
  /\ EngineIdle
  /\ OthersIdle
  /\ variant = "indexed"
  /\ files = [d \in Dirs |-> {}]
  /\ cwd = "ws1"
  /\ GcsEmpty

\* ---------------------------------------------------------------- Task (task.ts)
\* Task.acceptUserMessage: the message enters the history, the task is
\* working, a working status is published and a model stream is opened
AcceptUserMessage(i, inst, t, ts) ==
  /\ taskState' = [ts EXCEPT ![inst] = "working"]
  /\ busEvents' = Publish(busEvents, ExecBus(i),
                    StatusEvent(ExecBus(i), t, contextId'[inst], "working", FALSE, "none"))
  /\ history' = [history EXCEPT ![inst] = Append(@, "user")]
  /\ modelCalls' = [modelCalls EXCEPT ![inst] = @ + 1]

\* pushTaskStateFailed(error, eventBus, taskId, contextId)
PushTaskStateFailed(i, t, c) == StatusEvent(ExecBus(i), t, c, "failed", TRUE, "error")

\* ---------------------------------------------------------------- execute
\* the checkpoint built without the task's current state
ToSDKTaskStale(st) == "working"

\* executor.ts:54-73: the checkpoint of a Task carries its lifecycle state
ToSDKTask(st) == st

\* the check of the executing set left out
HasPendingExecutionNever(t) == FALSE

\* executor.ts:379
HasPendingExecution(t) == t \in executingTasks

\* the settings check that accepts every first message
HasAgentSettingsAlways(settings) == TRUE

\* executor.ts:338-343: the first message carries valid agent settings
HasAgentSettings(settings) == settings

\* executor.ts:365-403: the task is resolved; ignore, join the running loop, or start one
Resolve(i, inst, t, ts) ==
  /\ cur' = [cur EXCEPT ![i] = inst]
  /\ reqs' = [reqs EXCEPT ![i] = <<>>]
  /\ IF IsFinalForExecute(ts[inst])
       THEN /\ pc' = [pc EXCEPT ![i] = "done"]
            /\ taskState' = ts
            /\ UNCHANGED <<mode, executingTasks, busEvents, history, modelCalls>>
       ELSE /\ AcceptUserMessage(i, inst, t, ts)
            /\ IF HasPendingExecution(t)
                 THEN /\ pc' = [pc EXCEPT ![i] = "absorbing"]
                      /\ mode' = [mode EXCEPT ![i] = "absorb"]
                      /\ UNCHANGED executingTasks
                 ELSE /\ pc' = [pc EXCEPT ![i] = "streaming"]
                      /\ mode' = [mode EXCEPT ![i] = "loop"]
                      /\ executingTasks' = executingTasks \cup {t}

\* the reconstruct that accepts a snapshot without the persisted-state block
MissingPersistedStateNever(k) == FALSE

\* executor.ts:82-88: the metadata of the snapshot lacks the persisted-state block
MissingPersistedState(k) == k = "nostate"

\* executor.ts:267-363: a request arrives
ExecStart(i, t, k, settings) ==
  /\ pc[i] = "idle"
  /\ Quiet
  /\ i > 1 => pc[i - 1] # "idle"
  /\ tid' = [tid EXCEPT ![i] = t]
  /\ listening' = [listening EXCEPT ![i] = TRUE]
  /\ UNCHANGED <<tasks, hasStore, gcsVars, otherVars, contextId, store, pendingTools, scheduled, aborted, closedAt,
                 emitted, cancelVars, faults>>
  /\ IF tasks[t] # NoTask
       THEN /\ taskBus' = [taskBus EXCEPT ![tasks[t]] = ExecBus(i)]
            /\ Resolve(i, tasks[t], t, taskState)
            /\ UNCHANGED sdk
       ELSE /\ UNCHANGED <<taskBus, cur, reqs, mode, executingTasks, taskState, history,
                           modelCalls>>
            /\ IF MissingPersistedState(k) \/ (k = "none" /\ ~HasAgentSettings(settings))
                 THEN /\ busEvents' = Publish(busEvents, ExecBus(i),
                                        PushTaskStateFailed(i, t, IF k = "none"
                                                                    THEN MsgContext(i)
                                                                    ELSE SnapshotContext))
                      /\ pc' = [pc EXCEPT ![i] = "done"]
                      /\ UNCHANGED sdk
                 ELSE /\ pc' = [pc EXCEPT ![i] = IF k = "none" THEN "creating" ELSE "reconstructing"]
                      /\ sdk' = [sdk EXCEPT ![i] = k]
                      /\ UNCHANGED busEvents

\* executor.ts:118-134: createTask builds the Task and registers it
CreateDone(i) ==
  /\ pc[i] = "creating"
  /\ Quiet
  /\ tasks' = [tasks EXCEPT ![tid[i]] = i]
  /\ contextId' = [contextId EXCEPT ![i] = MsgContext(i)]
  /\ UNCHANGED <<hasStore, gcsVars, otherVars, store, pendingTools, scheduled, taskBus, tid, sdk, aborted,
                 listening, closedAt, emitted, cancelVars, faults>>
  /\ IF hasStore
       THEN /\ pc' = [pc EXCEPT ![i] = "createSaving"]
            /\ UNCHANGED <<cur, reqs, mode, executingTasks, taskState, history, modelCalls,
                           busEvents>>
       ELSE Resolve(i, i, tid[i], taskState)

\* executor.ts:124-132: getConfig, Task.create or initialize rejects
CreateFail(i) ==
  /\ pc[i] = "creating"
  /\ Quiet
  /\ faults < MaxFaults
  /\ faults' = faults + 1
  /\ pc' = [pc EXCEPT ![i] = "threw"]
  /\ UNCHANGED <<tasks, executingTasks, hasStore, gcsVars, otherVars, contextId, store, taskVars, tid, sdk, cur, mode,
                 aborted, listening, closedAt, reqs, emitted, cancelVars, busEvents>>

\* executor.ts:135-139: the initial checkpoint is saved
CreateSaveDone(i) ==
  /\ pc[i] = "createSaving"
  /\ Quiet
  /\ store' = [store EXCEPT ![tid[i]] = ToSDKTask("submitted")]
  /\ UNCHANGED <<tasks, hasStore, gcsVars, otherVars, contextId, pendingTools, scheduled, taskBus, tid, sdk,
                 aborted, listening, closedAt, emitted, cancelVars, faults>>
  /\ Resolve(i, i, tid[i], taskState)

\* executor.ts:136: the initial save rejects
CreateSaveFail(i) ==
  /\ pc[i] = "createSaving"
  /\ Quiet
  /\ faults < MaxFaults
  /\ faults' = faults + 1
  /\ pc' = [pc EXCEPT ![i] = "threw"]
  /\ UNCHANGED <<tasks, executingTasks, hasStore, gcsVars, otherVars, contextId, store, taskVars, tid, sdk, cur, mode,
                 aborted, listening, closedAt, reqs, emitted, cancelVars, busEvents>>

\* executor.ts:90-116, 328: reconstruct rebuilds the Task and registers it
ReconstructDone(i) ==
  /\ pc[i] = "reconstructing"
  /\ Quiet
  /\ tasks' = [tasks EXCEPT ![tid[i]] = i]
  /\ contextId' = [contextId EXCEPT ![i] = SnapshotContext]
  /\ Resolve(i, i, tid[i], [taskState EXCEPT ![i] = sdk[i]])
  /\ sdk' = [sdk EXCEPT ![i] = "none"]
  /\ UNCHANGED <<hasStore, gcsVars, otherVars, store, pendingTools, scheduled, taskBus, tid, aborted,
                 listening, closedAt, emitted, cancelVars, faults>>

\* executor.ts:329-336: reconstruct rejects, the request fails
ReconstructFail(i) ==
  /\ pc[i] = "reconstructing"
  /\ Quiet
  /\ faults < MaxFaults
  /\ faults' = faults + 1
  /\ busEvents' = Publish(busEvents, ExecBus(i), PushTaskStateFailed(i, tid[i], SnapshotContext))
  /\ pc' = [pc EXCEPT ![i] = "done"]
  /\ sdk' = [sdk EXCEPT ![i] = "none"]
  /\ UNCHANGED <<tasks, executingTasks, hasStore, gcsVars, otherVars, contextId, store, taskVars, tid, cur, mode,
                 aborted, listening, closedAt, reqs, emitted, cancelVars>>

\* ---------------------------------------------------------------- turn-loop exits
\* An exit is a record: the task's state, tool records and history when the
\* invocation leaves, the events it published on the way, how it left
\* ("done": returned, "threw": an exception escaped) and the failures used.
\* Failures are injected where execute awaits a collaborator or calls it
\* inside its try block.
Exit(st, pt, h, evs, p, f) == [st |-> st, pt |-> pt, h |-> h, evs |-> evs, pc |-> p, f |-> f]

\* the catch block that takes every error for a cancellation
CatchStateInputRequired(wasAborted) == "input-required"

\* executor.ts:466 and 483: the state the catch block moves the task to
CatchState(wasAborted) == IF wasAborted THEN "input-required" ELSE "failed"

\* the catch block that spares only a failed task
CatchKeepsStateFailedOnly(wasAborted, st) == st = "failed"

\* executor.ts:462-465 and 482: when the catch block leaves the state alone
CatchKeepsState(wasAborted, st) ==
  IF wasAborted THEN st \in {"canceled", "failed"} ELSE st = "failed"

\* executor.ts:458-491: the catch block, entered with the task in state st
CatchExits(i, st, pt, h, evs, f) ==
  LET final == StatusEvent(ExecBus(i), tid[i], contextId[cur[i]], CatchState(aborted[i]), TRUE,
                           IF aborted[i] THEN "abort" ELSE "error")
  IN  IF CatchKeepsState(aborted[i], st)
        THEN {Exit(st, CancelPendingTools(pt), h, evs, "done", f)}
        ELSE {Exit(CatchState(aborted[i]), CancelPendingTools(pt), h,
                   Append(evs, final), "done", f)}

\* the normal end of the loop marking the task completed
NormalExitsCompleted(i, st, pt, h, evs, f) ==
  LET final == StatusEvent(ExecBus(i), tid[i], contextId[cur[i]], "completed", TRUE, "none")
  IN  {Exit("completed", pt, h, Append(evs, final), "done", f)}

\* executor.ts:451-457: the loop ended, the final input-required status is published
NormalExits(i, st, pt, h, evs, f) ==
  LET final == StatusEvent(ExecBus(i), tid[i], contextId[cur[i]], "input-required", TRUE, "none")
  IN  {Exit("input-required", pt, h, Append(evs, final), "done", f)}
      \cup
      (IF f < MaxFaults THEN CatchExits(i, "input-required", pt, h, evs, f + 1) ELSE {})

\* executor.ts:430-439: every tool of the batch was cancelled
AllCancelledExits(i, st, h, f) ==
  LET final == StatusEvent(ExecBus(i), tid[i], contextId[cur[i]], "input-required", TRUE, "none")
      h2 == Append(h, "tools")
  IN  NormalExits(i, "input-required", <<>>, h2, <<final>>, f)
      \cup
      (IF f < MaxFaults THEN CatchExits(i, "input-required", <<>>, h2, <<>>, f + 1) ELSE {})

\* the exit that leaves the task id in the executing set
LeaveStillExecuting(i, o) ==
  /\ taskState' = [taskState EXCEPT ![cur[i]] = o.st]
  /\ pendingTools' = [pendingTools EXCEPT ![cur[i]] = o.pt]
  /\ history' = [history EXCEPT ![cur[i]] = o.h]
  /\ busEvents' = PublishAll(busEvents, taskBus[cur[i]], o.evs)
  /\ pc' = [pc EXCEPT ![i] = o.pc]
  /\ faults' = o.f
  /\ reqs' = [reqs EXCEPT ![i] = <<>>]
  /\ UNCHANGED <<tasks, executingTasks, hasStore, gcsVars, otherVars, contextId, store, taskBus, modelCalls,
                 tid, sdk, cur, mode, aborted, listening, closedAt, emitted, cancelVars>>

\* executor.ts:492-497: the invocation leaves the loop through exit o
Leave(i, o) ==
  /\ taskState' = [taskState EXCEPT ![cur[i]] = o.st]
  /\ pendingTools' = [pendingTools EXCEPT ![cur[i]] = o.pt]
  /\ history' = [history EXCEPT ![cur[i]] = o.h]
  /\ busEvents' = PublishAll(busEvents, taskBus[cur[i]], o.evs)
  /\ pc' = [pc EXCEPT ![i] = o.pc]
  /\ faults' = o.f
  /\ executingTasks' = executingTasks \ {tid[i]}
  /\ reqs' = [reqs EXCEPT ![i] = <<>>]
  /\ UNCHANGED <<tasks, hasStore, gcsVars, otherVars, contextId, store, taskBus, modelCalls, tid, sdk, cur,
                 mode, aborted, listening, closedAt, emitted, cancelVars>>

\* the exception thrown at this point of the loop reaches the catch block
Throw(i, f) ==
  /\ \E o \in CatchExits(i, taskState[cur[i]], pendingTools[cur[i]], history[cur[i]], <<>>, f) :
       Leave(i, o)
  /\ UNCHANGED scheduled

\* ---------------------------------------------------------------- turn-loop
\* the accumulation that puts the newest request first
AccumulateFirst(rs, r) == <<r>> \o rs

\* executor.ts:409-414: toolCallRequests.push(request)
Accumulate(rs, r) == Append(rs, r)

\* executor.ts:407-416: the model stream delivers an event
StreamEvent(i, ev) ==
  /\ pc[i] = "streaming"
  /\ Quiet
  /\ IF aborted[i]
       THEN Throw(i, faults)
       ELSE /\ UNCHANGED <<tasks, executingTasks, hasStore, gcsVars, otherVars, contextId, store, taskState, pendingTools,
                           taskBus, history, modelCalls, scheduled, pc, tid, sdk, cur, mode,
                           aborted, listening, closedAt, cancelVars, faults>>
            /\ IF ev = "tool"
                 THEN /\ emitted[1] < MaxTools
                      /\ emitted' = [emitted EXCEPT ![1] = @ + 1]
                      /\ reqs' = [reqs EXCEPT ![i] = Accumulate(@, emitted[1] + 1)]
                      /\ UNCHANGED busEvents
                 ELSE /\ emitted[2] < MaxContent
                      /\ emitted' = [emitted EXCEPT ![2] = @ + 1]
                      /\ busEvents' = Publish(busEvents, taskBus[cur[i]],
                                        StatusEvent(ExecBus(i), tid[i], contextId[cur[i]],
                                                    taskState[cur[i]], FALSE, "content"))
                      /\ UNCHANGED reqs

\* executor.ts:407: the model stream throws
StreamError(i) ==
  /\ pc[i] = "streaming"
  /\ Quiet
  /\ faults < MaxFaults
  /\ Throw(i, faults + 1)

\* the check after the stream that never sees the signal
AbortedAfterStreamNever(i) == FALSE

\* executor.ts:418: if (abortSignal.aborted) throw new Error('Execution aborted')
AbortedAfterStream(i) == aborted[i]

\* executor.ts:418-424: the stream ended; the batch is scheduled and the loop waits
StreamEnd(i) ==
  /\ pc[i] = "streaming"
  /\ Quiet
  /\ IF AbortedAfterStream(i)
       THEN Throw(i, faults)
       ELSE /\ pendingTools' = [pendingTools EXCEPT ![cur[i]] =
                                  @ \o [k \in DOMAIN reqs[i] |-> "pending"]]
            /\ scheduled' = [scheduled EXCEPT ![cur[i]] = @ \o reqs[i]]
            /\ pc' = [pc EXCEPT ![i] = "waiting"]
            /\ UNCHANGED <<tasks, executingTasks, hasStore, gcsVars, otherVars, contextId, store, taskState, taskBus,
                           history, modelCalls, tid, sdk, cur, mode, aborted, listening,
                           closedAt, reqs, emitted, cancelVars, busEvents, faults>>

\* executor.ts:421: scheduleToolCalls throws, having registered the first n
\* requests of the batch
ScheduleError(i, n) ==
  /\ pc[i] = "streaming"
  /\ Quiet
  /\ ~aborted[i]
  /\ reqs[i] # <<>>
  /\ n \in 0..Len(reqs[i])
  /\ faults < MaxFaults
  /\ scheduled' = [scheduled EXCEPT ![cur[i]] = @ \o SubSeq(reqs[i], 1, n)]
  /\ \E o \in CatchExits(i, taskState[cur[i]],
                         pendingTools[cur[i]] \o [k \in 1..n |-> "pending"],
                         history[cur[i]], <<>>, faults + 1) :
       Leave(i, o)

\* a scheduled tool call settles: it succeeds, fails, or its approval is cancelled
ToolSettle(inst, k, s) ==
  /\ Quiet
  /\ k \in DOMAIN pendingTools[inst]
  /\ pendingTools[inst][k] = "pending"
  /\ pendingTools' = [pendingTools EXCEPT ![inst][k] = s]
  /\ UNCHANGED <<tasks, executingTasks, hasStore, gcsVars, otherVars, contextId, store, taskState, taskBus, history,
                 modelCalls, scheduled, execVars, cancelVars, busEvents, faults>>

\* the check that takes an empty batch for a batch
HasCompletedToolsAlways(ct) == TRUE

\* executor.ts:429: completedTools.length > 0
HasCompletedTools(ct) == Len(ct) > 0

\* executor.ts:424-457: the wait for the pending tools is over
WaitDone(i) ==
  /\ Ready(i)
  /\ LET inst == cur[i]
         completedTools == pendingTools[inst]
     IN  IF aborted[i]
           THEN Throw(i, faults)
           ELSE IF HasCompletedTools(completedTools) /\ ~AllCancelled(completedTools)
             THEN \* sendCompletedToolsToLlm: the results go back to the model
                  /\ pendingTools' = [pendingTools EXCEPT ![inst] = <<>>]
                  /\ history' = [history EXCEPT ![inst] = Append(@, "tools")]
                  /\ modelCalls' = [modelCalls EXCEPT ![inst] = @ + 1]
                  /\ pc' = [pc EXCEPT ![i] = "streaming"]
                  /\ reqs' = [reqs EXCEPT ![i] = <<>>]
                  /\ UNCHANGED <<tasks, executingTasks, hasStore, gcsVars, otherVars, contextId, store, taskState, taskBus,
                                 scheduled, tid, sdk, cur, mode, aborted, listening,
                                 closedAt, emitted, cancelVars, busEvents, faults>>
             ELSE \E o \in (IF HasCompletedTools(completedTools)
                              THEN AllCancelledExits(i, taskState[inst], history[inst], faults)
                              ELSE NormalExits(i, taskState[inst], <<>>, history[inst],
                                               <<>>, faults)) :
                    Leave(i, o) /\ UNCHANGED scheduled

\* executor.ts:384-389: the stream of a message joined to a running loop
\* delivers an event; the body of the for-await is empty, the event is dropped
AbsorbEvent(i, ev) ==
  /\ pc[i] = "absorbing"
  /\ Quiet
  /\ IF ev = "tool"
       THEN /\ emitted[1] < MaxTools
            /\ emitted' = [emitted EXCEPT ![1] = @ + 1]
       ELSE /\ emitted[2] < MaxContent
            /\ emitted' = [emitted EXCEPT ![2] = @ + 1]
  /\ UNCHANGED <<tasks, executingTasks, hasStore, gcsVars, otherVars, contextId, store, taskVars, pc, tid, sdk, cur,
                 mode, aborted, listening, closedAt, reqs, cancelVars, busEvents, faults>>

\* executor.ts:384-390: the stream of a message joined to a running loop ends
AbsorbEnd(i) ==
  /\ pc[i] = "absorbing"
  /\ Quiet
  /\ pc' = [pc EXCEPT ![i] = "done"]
  /\ UNCHANGED <<tasks, executingTasks, hasStore, gcsVars, otherVars, contextId, store, taskVars, tid, sdk, cur, mode,
                 aborted, listening, closedAt, reqs, emitted, cancelVars, busEvents, faults>>

\* executor.ts:384: the stream of a message joined to a running loop throws
AbsorbError(i) ==
  /\ pc[i] = "absorbing"
  /\ Quiet
  /\ faults < MaxFaults
  /\ faults' = faults + 1
  /\ pc' = [pc EXCEPT ![i] = "threw"]
  /\ UNCHANGED <<tasks, executingTasks, hasStore, gcsVars, otherVars, contextId, store, taskVars, tid, sdk, cur, mode,
                 aborted, listening, closedAt, reqs, emitted, cancelVars, busEvents>>

\* executor.ts:300-308: the client's socket closes
ClientClose(i) ==
  /\ listening[i]
  /\ pc[i] \notin {"idle", "done", "threw"}
  /\ Quiet
  /\ aborted' = [aborted EXCEPT ![i] = TRUE]
  /\ listening' = [listening EXCEPT ![i] = FALSE]
  /\ closedAt' = [closedAt EXCEPT ![i] =
                    IF pc[i] = "waiting" THEN "pendingTool" ELSE "other"]
  /\ UNCHANGED <<tasks, executingTasks, hasStore, gcsVars, otherVars, contextId, store, taskVars, pc, tid, sdk, cur, mode,
                 reqs, emitted, cancelVars, busEvents, faults>>

\* ---------------------------------------------------------------- cancelTask
\* the not-found event published without the final flag
NotFoundEventNotFinal(c, t) == StatusEvent(CancelBus(c), t, "fresh", "failed", FALSE, "notfound")

\* executor.ts:163-178
NotFoundEvent(c, t) == StatusEvent(CancelBus(c), t, "fresh", "failed", TRUE, "notfound")

\* executor.ts:186-206
AlreadyFinalEvent(c, t, st) ==
  StatusEvent(CancelBus(c), t, contextId[tasks[t]], st, TRUE, "already")

\* executor.ts:219-225
CanceledEvent(c, t) ==
  StatusEvent(CancelBus(c), t, contextId[tasks[t]], "canceled", TRUE, "canceled")

\* executor.ts:243-263
CancelFailedEvent(c, t) ==
  StatusEvent(CancelBus(c), t, contextId[tasks[t]], "failed", TRUE, "cancelfail")

\* the catch block rethrowing instead of publishing
CancelCatchRethrow(c, t) == [pc |-> "threw", evs |-> <<>>]

\* executor.ts:236-264: the catch block of cancelTask
CancelCatch(c, t) == [pc |-> "done", evs |-> <<CancelFailedEvent(c, t)>>]

\* executor.ts:150-235: a cancel request arrives
CancelTask(c, t) ==
  /\ cpc[c] = "idle"
  /\ Quiet
  /\ c > 1 => cpc[c - 1] # "idle"
  /\ ctid' = [ctid EXCEPT ![c] = t]
  /\ UNCHANGED <<tasks, executingTasks, hasStore, gcsVars, otherVars, contextId, store, taskBus, history, modelCalls,
                 scheduled, execVars>>
  /\ LET inst == tasks[t] IN
     IF inst = NoTask
       THEN /\ busEvents' = Publish(busEvents, CancelBus(c), NotFoundEvent(c, t))
            /\ cpc' = [cpc EXCEPT ![c] = "done"]
            /\ UNCHANGED <<taskState, pendingTools, cfault, csnap, faults>>
       ELSE IF IsFinalForCancel(taskState[inst])
       THEN /\ busEvents' = Publish(busEvents, CancelBus(c),
                                    AlreadyFinalEvent(c, t, taskState[inst]))
            /\ cpc' = [cpc EXCEPT ![c] = "done"]
            /\ UNCHANGED <<taskState, pendingTools, cfault, csnap, faults>>
       ELSE \/ \* the cancellation is processed
               /\ pendingTools' = [pendingTools EXCEPT ![inst] = CancelPendingTools(@)]
               /\ taskState' = [taskState EXCEPT ![inst] = "canceled"]
               /\ busEvents' = Publish(busEvents, taskBus[inst], CanceledEvent(c, t))
               /\ IF hasStore
                    THEN /\ cpc' = [cpc EXCEPT ![c] = "saving"]
                         /\ csnap' = [csnap EXCEPT ![c] = ToSDKTask("canceled")]
                    ELSE /\ cpc' = [cpc EXCEPT ![c] = "done"]
                         /\ UNCHANGED csnap
               /\ UNCHANGED <<cfault, faults>>
            \/ \* cancelPendingTools throws
               /\ faults < MaxFaults
               /\ faults' = faults + 1
               /\ cfault' = [cfault EXCEPT ![c] = "tools"]
               /\ busEvents' = PublishAll(busEvents, CancelBus(c), CancelCatch(c, t).evs)
               /\ cpc' = [cpc EXCEPT ![c] = CancelCatch(c, t).pc]
               /\ UNCHANGED <<taskState, pendingTools, csnap>>
            \/ \* setTaskStateAndPublishUpdate throws: the state is set, nothing is published
               /\ faults < MaxFaults
               /\ faults' = faults + 1
               /\ cfault' = [cfault EXCEPT ![c] = "publish"]
               /\ pendingTools' = [pendingTools EXCEPT ![inst] = CancelPendingTools(@)]
               /\ taskState' = [taskState EXCEPT ![inst] = "canceled"]
               /\ busEvents' = PublishAll(busEvents, CancelBus(c), CancelCatch(c, t).evs)
               /\ cpc' = [cpc EXCEPT ![c] = CancelCatch(c, t).pc]
               /\ UNCHANGED csnap

\* executor.ts:231-235: the checkpoint of the canceled task is saved
CancelSaveDone(c) ==
  /\ cpc[c] = "saving"
  /\ Quiet
  /\ store' = [store EXCEPT ![ctid[c]] = csnap[c]]
  /\ cpc' = [cpc EXCEPT ![c] = "done"]
  /\ UNCHANGED <<tasks, executingTasks, hasStore, gcsVars, otherVars, contextId, taskVars, execVars, ctid, cfault, csnap,
                 busEvents, faults>>

\* executor.ts:231, 236-264: saving the checkpoint fails
CancelSaveFail(c) ==
  /\ cpc[c] = "saving"
  /\ Quiet
  /\ faults < MaxFaults
  /\ faults' = faults + 1
  /\ cfault' = [cfault EXCEPT ![c] = "save"]
  /\ busEvents' = PublishAll(busEvents, CancelBus(c), CancelCatch(c, ctid[c]).evs)
  /\ cpc' = [cpc EXCEPT ![c] = CancelCatch(c, ctid[c]).pc]
  /\ UNCHANGED <<tasks, executingTasks, hasStore, gcsVars, otherVars, contextId, store, taskVars, execVars, ctid, csnap>>

\* ---------------------------------------------------------------- specification
Next ==
  \/ \E i \in Inv, t \in ExecIds, k \in SdkKinds, settings \in BOOLEAN :
       ExecStart(i, t, k, settings)
  \/ \E i \in Inv : CreateDone(i)
  \/ \E i \in Inv : CreateFail(i)
  \/ \E i \in Inv : CreateSaveDone(i)
  \/ \E i \in Inv : CreateSaveFail(i)
  \/ \E i \in Inv : ReconstructDone(i)
  \/ \E i \in Inv : ReconstructFail(i)
  \/ \E i \in Inv, ev \in {"tool", "content"} : StreamEvent(i, ev)
  \/ \E i \in Inv : StreamError(i)
  \/ \E i \in Inv : StreamEnd(i)
  \/ \E i \in Inv, n \in 0..MaxTools : ScheduleError(i, n)
  \/ \E i \in Inv, k \in 1..MaxTools, s \in ToolStatus \ {"pending"} : ToolSettle(i, k, s)
  \/ \E i \in Inv : WaitDone(i)
  \/ \E i \in Inv, ev \in {"tool", "content"} : AbsorbEvent(i, ev)
  \/ \E i \in Inv : AbsorbEnd(i)
  \/ \E i \in Inv : AbsorbError(i)
  \/ \E i \in Inv : ClientClose(i)
  \/ \E c \in Can, t \in TaskIds : CancelTask(c, t)
  \/ \E c \in Can : CancelSaveDone(c)
  \/ \E c \in Can : CancelSaveFail(c)

Spec == Init /\ [][Next]_vars

\* ---------------------------------------------------------------- progress
\* The executor constructed without a task store (executor.ts:135, 231: the
\* saves are skipped), with the progress the event loop and the collaborators
\* give: a model stream that is being consumed ends, a scheduled tool call
\* settles, and the continuation of a resolved promise runs.
InitLive == Init /\ ~hasStore

NextLive ==
  \/ \E i \in Inv, t \in ExecIds, k \in SdkKinds, settings \in BOOLEAN :
       ExecStart(i, t, k, settings)
  \/ \E i \in Inv : CreateDone(i)
  \/ \E i \in Inv : CreateFail(i)
  \/ \E i \in Inv : ReconstructDone(i)
  \/ \E i \in Inv : ReconstructFail(i)
  \/ \E i \in Inv, ev \in {"tool", "content"} : StreamEvent(i, ev)
  \/ \E i \in Inv : StreamError(i)
  \/ \E i \in Inv : StreamEnd(i)
  \/ \E i \in Inv, n \in 0..MaxTools : ScheduleError(i, n)
  \/ \E i \in Inv, k \in 1..MaxTools, s \in ToolStatus \ {"pending"} : ToolSettle(i, k, s)
  \/ \E i \in Inv : WaitDone(i)
  \/ \E i \in Inv, ev \in {"tool", "content"} : AbsorbEvent(i, ev)
  \/ \E i \in Inv : AbsorbEnd(i)
  \/ \E i \in Inv : AbsorbError(i)
  \/ \E i \in Inv : ClientClose(i)
  \/ \E c \in Can, t \in TaskIds : CancelTask(c, t)

Progress ==
  /\ \A i \in Inv : WF_vars(CreateDone(i))
  /\ \A i \in Inv : WF_vars(ReconstructDone(i))
  /\ \A i \in Inv : WF_vars(StreamEnd(i))
  /\ \A i \in Inv : WF_vars(\E k \in 1..MaxTools, s \in ToolStatus \ {"pending"} : ToolSettle(i, k, s))
  /\ \A i \in Inv : WF_vars(WaitDone(i))
  /\ \A i \in Inv : WF_vars(AbsorbEnd(i))

SpecLive == InitLive /\ [][NextLive]_vars /\ Progress

\* ---------------------------------------------------------------- GCSTaskStore
\* Every action is one await of save or load on the bucket or the local file
\* system; ok = FALSE is the awaited operation rejecting.
InitStore ==
  /\ hasStore = TRUE
  /\ EngineIdle
  /\ OthersIdle
  /\ variant \in Variants
  /\ files \in {[d \in Dirs |-> IF d = "ws1" THEN f ELSE {"b"}] : f \in {{}, {"a"}}}
  /\ cwd = "ws1"
  /\ GcsEmpty

\* the workspace root that the agent settings of a task name
Root(t) == IF t = "T1" THEN "ws1" ELSE "ws2"

\* part_001:211 and 506-509: the directory load extracts into.  The "log"
\* source hands the agent settings to setTargetDir; the "indexed" source hands
\* it the whole persisted-state block, which names no workspace.
TargetDirs(v, t) == IF v = "log" THEN {Root(t)} ELSE Dirs

\* the order of the writes of save, per source
FirstStep(v) == IF v = "indexed" THEN "index" ELSE "task"
AfterIndex(v) == IF v = "indexed" THEN "task" ELSE "logRead"
AfterWorkspace(v) == IF v = "indexed" THEN "done" ELSE "index"

Key(task) == <<task.contextId, task.id>>

\* the calls that have returned when a call begins
Returned == {p \in Ops : ops[p].pc \in {"done", "threw"}}

\* the awaited operation rejects and the exception leaves save or load
Rejects(o, ok) ==
  /\ ~ok
  /\ faults < MaxFaults
  /\ faults' = faults + 1
  /\ ops' = [ops EXCEPT ![o].pc = "threw", ![o].result = "error:io"]

Finish(op, v) == IF v = "done" THEN [op EXCEPT !.pc = "done", !.result = "ok"]
                 ELSE [op EXCEPT !.pc = v]

\* the check that lets a task without context id through
MissingContextIdNever(c) == FALSE

\* part_001:84-86 and 344-346: the task has no context id
MissingContextId(c) == c = NoContext

\* part_001:80-89 and 339-352: save is called; a task without the
\* persisted-state block is a bare one, with no message yet
Save(o, t, c, h, p) ==
  /\ ops[o].pc = "idle"
  /\ o > 1 => ops[o - 1].pc # "idle"
  /\ p \/ h = <<>>
  /\ ops' = [ops EXCEPT ![o] =
               IF MissingContextId(c)
                 THEN [@ EXCEPT !.kind = "save", !.id = t, !.after = Returned,
                                !.task = SdkTask(t, c, SavedState(h), h, p),
                                !.pc = "threw", !.result = "error:context"]
                 ELSE [@ EXCEPT !.kind = "save", !.id = t, !.after = Returned,
                                !.task = SdkTask(t, c, SavedState(h), h, p),
                                !.dir = cwd, !.pc = FirstStep(variant)]]
  /\ UNCHANGED <<engineVars, otherVars, faults, variant, index, taskObjects, workspaces,
                 contextHistory, files, cwd>>

\* part_001:135-141 and 355-364: the index entry taskId -> contextId is written
SaveIndex(o, ok) ==
  /\ ops[o].kind = "save"
  /\ ops[o].pc = "index"
  /\ \/ /\ ok
        /\ index' = [index EXCEPT ![ops[o].id] = ops[o].task.contextId]
        /\ ops' = [ops EXCEPT ![o].pc = AfterIndex(variant), ![o].writes = Append(@, "index")]
        /\ UNCHANGED faults
     \/ /\ Rejects(o, ok)
        /\ UNCHANGED index
  /\ UNCHANGED <<engineVars, otherVars, variant, taskObjects, workspaces, contextHistory, files, cwd>>

\* part_001:91-99 and 366-376: the task object is written as JSON
SaveTaskObject(o, ok) ==
  /\ ops[o].kind = "save"
  /\ ops[o].pc = "task"
  /\ \/ /\ ok
        /\ taskObjects' = [taskObjects EXCEPT ![Key(ops[o].task)] = ToJson(ops[o].task)]
        /\ ops' = [ops EXCEPT ![o].pc = "workspace", ![o].writes = Append(@, "task")]
        /\ UNCHANGED faults
     \/ /\ Rejects(o, ok)
        /\ UNCHANGED taskObjects
  /\ UNCHANGED <<engineVars, otherVars, variant, index, workspaces, contextHistory, files, cwd>>

\* part_001:101-133 and 378-458: the working directory is archived and uploaded,
\* unless it is empty
SaveWorkspace(o, ok) ==
  /\ ops[o].kind = "save"
  /\ ops[o].pc = "workspace"
  /\ LET entries == files[ops[o].dir] IN
     \/ /\ ok
        /\ workspaces' = IF entries = {} THEN workspaces
                         ELSE [workspaces EXCEPT ![Key(ops[o].task)] = entries]
        /\ ops' = [ops EXCEPT ![o] =
                     Finish([@ EXCEPT !.writes = IF entries = {} THEN @
                                                 ELSE Append(@, "workspace")],
                            AfterWorkspace(variant))]
        /\ UNCHANGED faults
     \/ /\ entries # {}
        /\ Rejects(o, ok)
        /\ UNCHANGED workspaces
  /\ UNCHANGED <<engineVars, otherVars, variant, index, taskObjects, contextHistory, files, cwd>>

\* part_001:157-162: the messages of the task history whose id is not in the log
NewMessages(h, log) == SelectSeq(h, LAMBDA m : \A k \in DOMAIN log : log[k] # m)

\* part_001:143-164: the context log is read (an unreadable log counts as
\* empty) and the new messages of the task are appended to what was read
SaveHistoryRead(o, ok) ==
  /\ ops[o].kind = "save"
  /\ ops[o].pc = "logRead"
  /\ ok \/ faults < MaxFaults
  /\ faults' = IF ok THEN faults ELSE faults + 1
  /\ LET read == IF ok THEN contextHistory[ops[o].task.contextId] ELSE <<>>
         newMessages == NewMessages(ops[o].task.history, read)
     IN  ops' = [ops EXCEPT ![o] =
                   IF Len(newMessages) > 0
                     THEN [@ EXCEPT !.pc = "logWrite", !.log = read \o newMessages,
                                    !.news = newMessages]
                     ELSE Finish(@, "done")]
  /\ UNCHANGED <<engineVars, otherVars, variant, index, taskObjects, workspaces, contextHistory,
                 files, cwd>>

\* part_001:165-171: the extended log is written back
SaveHistoryWrite(o, ok) ==
  /\ ops[o].kind = "save"
  /\ ops[o].pc = "logWrite"
  /\ \/ /\ ok
        /\ contextHistory' = [contextHistory EXCEPT ![ops[o].task.contextId] = ops[o].log]
        /\ ops' = [ops EXCEPT ![o] = Finish([@ EXCEPT !.writes = Append(@, "log")], "done")]
        /\ UNCHANGED faults
     \/ /\ Rejects(o, ok)
        /\ UNCHANGED contextHistory
  /\ UNCHANGED <<engineVars, otherVars, variant, index, taskObjects, workspaces, files, cwd>>

\* part_001:175-177 and 465-468: load is called
Load(o, t) ==
  /\ ops[o].pc = "idle"
  /\ o > 1 => ops[o - 1].pc # "idle"
  /\ ops' = [ops EXCEPT ![o] = [@ EXCEPT !.kind = "load", !.id = t, !.after = Returned,
                                          !.pc = "index", !.via = "real"]]
  /\ UNCHANGED <<engineVars, otherVars, faults, variant, index, taskObjects, workspaces,
                 contextHistory, files, cwd>>

\* the test that finds an index entry for every task id
IndexExistsAlways(ix, t) == TRUE

\* part_001:182-186 and 475-479: the index object of the task id exists
IndexExists(ix, t) == ix[t] # NoContext

\* part_001:179-188 and 471-484: the index entry is read
LoadIndex(o, ok) ==
  /\ ops[o].kind = "load"
  /\ ops[o].pc = "index"
  /\ \/ /\ ok
        /\ ops' = [ops EXCEPT ![o] =
                     IF IndexExists(index, ops[o].id)
                       THEN [@ EXCEPT !.pc = "task", !.ctx = index[ops[o].id]]
                       ELSE [@ EXCEPT !.pc = "done", !.result = "undefined"]]
        /\ UNCHANGED faults
     \/ Rejects(o, ok)
  /\ UNCHANGED <<engineVars, otherVars, variant, index, taskObjects, workspaces, contextHistory,
                 files, cwd>>

\* part_001:193-199 and 491-499: what load answers when the index entry exists
\* and the task object does not
MissingObject(v) == IF v = "indexed" THEN "error:inconsistent" ELSE "undefined"

\* part_001:205-210: the "log" source refuses a task object without the
\* persisted-state block; the "indexed" source has no such check
MetadataRefused(v, task) == v = "log" /\ ~task.persisted

\* part_001:190-212 and 486-510: the task object is read and parsed
LoadTaskObject(o, ok, d) ==
  /\ ops[o].kind = "load"
  /\ ops[o].pc = "task"
  /\ d \in TargetDirs(variant, ops[o].id)
  /\ LET object == taskObjects[<<ops[o].ctx, ops[o].id>>] IN
     \/ /\ ok
        /\ ops' = [ops EXCEPT ![o] =
                     IF object = NoObject
                       THEN [@ EXCEPT !.result = MissingObject(variant),
                                      !.pc = IF MissingObject(variant) = "undefined"
                                               THEN "done" ELSE "threw"]
                       ELSE IF MetadataRefused(variant, FromJson(object))
                       THEN [@ EXCEPT !.result = "error:metadata", !.pc = "threw"]
                       ELSE [@ EXCEPT !.task = FromJson(object), !.dir = d,
                                      !.pc = "workspace"]]
        /\ UNCHANGED faults
     \/ Rejects(o, ok)
  /\ UNCHANGED <<engineVars, otherVars, variant, index, taskObjects, workspaces, contextHistory,
                 files, cwd>>

\* part_001:214-235 and 512-538: the workspace archive, if there is one, is
\* extracted into the target directory and the task is returned
LoadWorkspace(o, ok) ==
  /\ ops[o].kind = "load"
  /\ ops[o].pc = "workspace"
  /\ LET archive == workspaces[<<ops[o].ctx, ops[o].id>>] IN
     \/ /\ ok
        /\ files' = [files EXCEPT ![ops[o].dir] = @ \cup archive]
        /\ ops' = [ops EXCEPT ![o] = Finish(@, "done")]
        /\ UNCHANGED faults
     \/ /\ archive # {}
        /\ Rejects(o, ok)
        /\ UNCHANGED files
  /\ UNCHANGED <<engineVars, otherVars, variant, index, taskObjects, workspaces, contextHistory, cwd>>

NextStore ==
  \/ \E o \in Ops, t \in TaskIds, c \in Contexts \cup {NoContext}, h \in Histories,
        p \in BOOLEAN : Save(o, t, c, h, p)
  \/ \E o \in Ops, ok \in BOOLEAN : SaveIndex(o, ok)
  \/ \E o \in Ops, ok \in BOOLEAN : SaveTaskObject(o, ok)
  \/ \E o \in Ops, ok \in BOOLEAN : SaveWorkspace(o, ok)
  \/ \E o \in Ops, ok \in BOOLEAN : SaveHistoryRead(o, ok)
  \/ \E o \in Ops, ok \in BOOLEAN : SaveHistoryWrite(o, ok)
  \/ \E o \in Ops, t \in TaskIds : Load(o, t)
  \/ \E o \in Ops, ok \in BOOLEAN : LoadIndex(o, ok)
  \/ \E o \in Ops, ok \in BOOLEAN, d \in Dirs : LoadTaskObject(o, ok, d)
  \/ \E o \in Ops, ok \in BOOLEAN : LoadWorkspace(o, ok)

SpecStore == InitStore /\ [][NextStore]_vars

\* ---------------------------------------------------------------- load alone
\* load as a function of what the bucket holds: the bucket is shared storage
\* and load must answer for whatever it finds there (gcs.test.ts:303-324 sets
\* up an index entry without a task object).  A stored task is one that
\* carries the persisted-state block.
StoredTask(k) == ToJson(SdkTask(k[2], k[1], "input-required", <<"m1">>, TRUE))

InitLoad ==
  /\ hasStore = TRUE
  /\ EngineIdle
  /\ OthersIdle
  /\ variant \in Variants
  /\ files \in {[d \in Dirs |-> IF d = "ws1" THEN f ELSE {"b"}] : f \in {{}, {"a"}}}
  /\ cwd = "ws1"
  /\ index \in [TaskIds -> Contexts \cup {NoContext}]
  /\ taskObjects \in {[k \in TaskKeys |-> IF k \in ks THEN StoredTask(k) ELSE NoObject] :
                         ks \in SUBSET TaskKeys}
  /\ workspaces \in {[k \in TaskKeys |-> IF taskObjects[k] # NoObject THEN w ELSE {}] :
                        w \in {{}, {"a"}}}
  /\ contextHistory = [c \in Contexts |-> <<>>]
  /\ ops = [o \in Ops |-> IdleOp]

NextLoad ==
  \/ \E o \in Ops, t \in TaskIds : Load(o, t)
  \/ \E o \in Ops, ok \in BOOLEAN : LoadIndex(o, ok)
  \/ \E o \in Ops, ok \in BOOLEAN, d \in Dirs : LoadTaskObject(o, ok, d)
  \/ \E o \in Ops, ok \in BOOLEAN : LoadWorkspace(o, ok)

SpecLoad == InitLoad /\ [][NextLoad]_vars

\* ---------------------------------------------------------------- NoOpTaskStore
\* the no-op save that hands the task to the real store
NoOpSaveDelegates(o, t, c, h, p) == Save(o, t, c, h, p)

\* part_001:549-552: save of the no-op store logs and returns
NoOpSave(o, t, c, h, p) ==
  /\ ops[o].pc = "idle"
  /\ o > 1 => ops[o - 1].pc # "idle"
  /\ ops' = [ops EXCEPT ![o] = [@ EXCEPT !.kind = "save", !.id = t, !.after = Returned,
                                          !.task = SdkTask(t, c, SavedState(h), h, p),
                                          !.via = "noop", !.pc = "done",
                                          !.result = "ok"]]
  /\ UNCHANGED <<engineVars, otherVars, faults, variant, index, taskObjects, workspaces,
                 contextHistory, files, cwd>>

\* part_001:554-559: load of the no-op store calls load of the real store
\* and returns its promise
NoOpLoad(o, t) ==
  /\ ops[o].pc = "idle"
  /\ o > 1 => ops[o - 1].pc # "idle"
  /\ ops' = [ops EXCEPT ![o] = [@ EXCEPT !.kind = "load", !.id = t, !.after = Returned,
                                          !.pc = "index", !.via = "noop"]]
  /\ UNCHANGED <<engineVars, otherVars, faults, variant, index, taskObjects, workspaces,
                 contextHistory, files, cwd>>

\* the no-op store in front of a real store whose bucket holds any tasks of
\* context C1
InitNoOp ==
  /\ InitLoad
  /\ \A t \in TaskIds : index[t] # "C2" /\ taskObjects[<<"C2", t>>] = NoObject

NextNoOp ==
  \/ \E o \in Ops, t \in TaskIds, c \in Contexts \cup {NoContext} :
        NoOpSave(o, t, c, <<"m1">>, TRUE)
  \/ \E o \in Ops, t \in TaskIds : NoOpLoad(o, t)
  \/ \E o \in Ops, t \in TaskIds : Load(o, t)
  \/ \E o \in Ops, ok \in BOOLEAN : LoadIndex(o, ok)
  \/ \E o \in Ops, ok \in BOOLEAN, d \in Dirs : LoadTaskObject(o, ok, d)
  \/ \E o \in Ops, ok \in BOOLEAN : LoadWorkspace(o, ok)

SpecNoOp == InitNoOp /\ [][NextNoOp]_vars

\* ---------------------------------------------------------------- checkpoint round trip
\* toSDKTask followed by reconstruct, on any Task of the bounds
InitRoundTrip ==
  /\ hasStore = FALSE
  /\ EngineIdle
  /\ variant = "indexed"
  /\ files = [d \in Dirs |-> {}]
  /\ cwd = "ws1"
  /\ GcsEmpty
  /\ client = "cli"
  /\ workspacePath = "ws1"
  /\ ClientIdle
  /\ rt \in {[NoRoundTrip EXCEPT !.pc = "task", !.task = RuntimeTask(t, c, st, d, h)] :
               t \in TaskIds, c \in Contexts, st \in TaskStates, d \in Dirs,
               h \in TaskHistories}

\* executor.ts:54-73: toSDKTask
SDKTaskOf(task) ==
  [id |-> task.id, contextId |-> task.contextId, state |-> task.taskState,
   persistedState |-> [agentSettings |-> task.agentSettings, taskState |-> task.taskState],
   history |-> task.history]

\* the role mapping that keeps the A2A role
SessionRoleSame(role) == role

\* executor.ts:103: the role a persisted message gets in the model session
SessionRole(role) == IF role = "agent" THEN "model" ELSE "user"

\* executor.ts:100-110: the persisted history is added to the model session,
\* message by message; of each part only the text property is kept
ReplayHistory(h) ==
  [k \in DOMAIN h |-> [role |-> SessionRole(h[k].role), text |-> h[k].part.text]]

\* executor.ts:89-99: the Task that reconstruct builds from the checkpoint
Reconstructed(sdkTask) ==
  RuntimeTask(sdkTask.id, sdkTask.contextId, sdkTask.persistedState.taskState,
              sdkTask.persistedState.agentSettings, <<>>)

\* executor.ts:54-73: the Task is checkpointed
Checkpoint ==
  /\ rt.pc = "task"
  /\ rt' = [rt EXCEPT !.pc = "checkpoint", !.sdkTask = SDKTaskOf(rt.task)]
  /\ UNCHANGED <<engineVars, gcsVars, faults, clientVars>>

\* executor.ts:78-116: reconstruct builds the Task from the checkpoint, sets
\* its state, replays the history and registers it; when getConfig,
\* Task.create or initialize rejects, nothing is registered
Reconstruct(ok) ==
  /\ rt.pc = "checkpoint"
  /\ rt' = IF ok
             THEN [rt EXCEPT !.pc = "registered",
                             !.runtimeTask = Reconstructed(rt.sdkTask),
                             !.session = ReplayHistory(rt.sdkTask.history),
                             !.registered = rt.sdkTask.id]
             ELSE [rt EXCEPT !.pc = "threw"]
  /\ UNCHANGED <<engineVars, gcsVars, faults, clientVars>>

NextRoundTrip ==
  \/ Checkpoint
  \/ \E ok \in BOOLEAN : Reconstruct(ok)

SpecRoundTrip == InitRoundTrip /\ [][NextRoundTrip]_vars

\* ---------------------------------------------------------------- debugging client
\* Two sources of the terminal client: "cli" (client-cli.ts) and "part_000".
InitClient ==
  /\ hasStore = FALSE
  /\ EngineIdle
  /\ variant = "indexed"
  /\ files = [d \in Dirs |-> {}]
  /\ cwd = "ws1"
  /\ GcsEmpty
  /\ rt = NoRoundTrip
  /\ client \in {"cli", "part_000"}
  /\ workspacePath = IF client = "cli" THEN "ws1" ELSE "unset"
  /\ ClientIdle

\* client-cli.ts:340-342 (/new), part_000:229-232 (/new_context)
CommandNew ==
  /\ currentTaskId' = NoId
  /\ currentContextId' = NoId
  /\ workspacePath' = "ws1"
  /\ UNCHANGED <<engineVars, gcsVars, faults, rt, client, sent>>

\* client-cli.ts:351-359 and 232-310 (/enter: the last task of the context is
\* resumed when the server reports it in flight), part_000:241-253 (/load_context)
CommandEnter(c, t) ==
  /\ currentContextId' = c
  /\ currentTaskId' = IF client = "cli" THEN t ELSE NoId
  /\ workspacePath' = "ws1"
  /\ UNCHANGED <<engineVars, gcsVars, faults, rt, client, sent>>

\* part_000:261-262 (/new_task)
CommandNewTask ==
  /\ client = "part_000"
  /\ currentTaskId' = NoId
  /\ UNCHANGED <<engineVars, gcsVars, faults, rt, client, currentContextId, workspacePath,
                 sent>>

\* client-cli.ts:433-450 (/cancel)
CommandCancel ==
  /\ client = "cli"
  /\ currentTaskId # NoId
  /\ currentTaskId' = NoId
  /\ UNCHANGED <<engineVars, gcsVars, faults, rt, client, currentContextId, workspacePath,
                 sent>>

\* client-cli.ts:476-580, part_000:326-338: an event of the stream arrives;
\* t and c are the ids it carries (NoId: the field is absent)
ClientEvent(kind, t, c, final, st) ==
  /\ sent # NoMessage
  /\ kind = "message" \/ (t # NoId /\ c # NoId)
  /\ client = "part_000" => kind = "task"
  /\ currentContextId' = IF c # NoId THEN c ELSE currentContextId
  /\ currentTaskId' =
       IF client = "cli" /\ kind = "status-update" /\ final /\ st # "input-required"
         THEN NoId
         ELSE IF t # NoId THEN t ELSE currentTaskId
  /\ UNCHANGED <<engineVars, gcsVars, faults, rt, client, workspacePath, sent>>

\* client-cli.ts:691-699: settings go with a message that has no task id;
\* part_000:311-319: settings go with a message that has no context id
AttachSettings(v, t, c) == IF v = "cli" THEN t = NoId ELSE c = NoId

\* client-cli.ts:667-704, part_000:288-319: a line of text is sent as a message
SendLine ==
  /\ workspacePath # "unset"
  /\ sent' = [taskId |-> currentTaskId, contextId |-> currentContextId,
              settings |-> AttachSettings(client, currentTaskId, currentContextId),
              text |-> "input"]
  /\ UNCHANGED <<engineVars, gcsVars, faults, rt, client, currentTaskId, currentContextId,
                 workspacePath>>

NextClient ==
  \/ CommandNew
  \/ \E c \in Contexts, t \in TaskIds \cup {NoId} : CommandEnter(c, t)
  \/ CommandNewTask
  \/ CommandCancel
  \/ \E kind \in {"status-update", "message", "task"}, t \in TaskIds \cup {NoId},
        c \in Contexts \cup {NoId}, final \in BOOLEAN,
        st \in {"working", "input-required", "completed"} :
        ClientEvent(kind, t, c, final, st)
  \/ SendLine

SpecClient == InitClient /\ [][NextClient]_vars

\* ================================================================ claims
\* an execute invocation whose turn-loop is running
LoopActive(i) == mode[i] = "loop" /\ pc[i] \in {"streaming", "waiting"}

\* the execute invocation i joins a running loop in this step
Joins(i) == pc[i] # "absorbing" /\ pc'[i] = "absorbing"

C2_TerminalIsSticky ==
  [][\A inst \in Inv :
       taskState[inst] \in {"canceled", "failed"} => taskState'[inst] = taskState[inst]]_vars

\* C3: once a Task's state is terminal, no tool call is scheduled for it and
\* no model call (user turn or tool-result continuation) is made for it.
C3_NoWorkOnceTerminal ==
  [][\A inst \in Inv :
       Terminal(taskState[inst]) =>
         /\ scheduled'[inst] = scheduled[inst]
         /\ modelCalls'[inst] = modelCalls[inst]]_vars

\* the final events of an event burst
Finals(evs) == SelectSeq(evs, LAMBDA e : e.final)

\* exactly one final event, and it is the last event
UniqueFinalEventIsLast(evs) ==
  /\ Len(Finals(evs)) = 1
  /\ evs[Len(evs)].final

\* the execute invocation i, which ran a turn-loop, returns in this step
LoopReturns(i) == mode[i] = "loop" /\ pc[i] \in {"streaming", "waiting"} /\ pc'[i] = "done"

\* no other request and no failure has touched the invocation's task
RanAlone(i) ==
  /\ \A j \in Inv \ {i} : pc[j] = "idle"
  /\ \A c \in Can : cpc[c] = "idle"
  /\ faults = 0

\* C4: every execute invocation that runs a turn-loop publishes exactly one
\* status-update event with final=true, and it is the last event of the
\* invocation's event burst, on every exit path; stated here for an invocation
\* that no other request and no failure interferes with.
C4_UniqueFinalEventIsLast ==
  [][\A i \in Inv :
       (LoopReturns(i) /\ RanAlone(i)) => UniqueFinalEventIsLast(busEvents'[ExecBus(i)])]_vars

\* C5: no exception escapes execute, whichever collaborator fails.
C5_NoExceptionEscapes == \A i \in Inv : pc[i] # "threw"

\* the places <<bus, index>> of the final events with text x that by published
FinalsBy(be, by, x) ==
  UNION {{<<b, k>> : k \in {n \in DOMAIN be[b] :
                              be[b][n].by = by /\ be[b][n].final /\ be[b][n].text = x}} :
         b \in Bus}

\* C6: when the client connection closes while a turn-loop waits on a pending
\* tool call, the loop ends with the pending tools cancelled, the task in state
\* input-required and exactly one final status event citing the abort published
\* by that invocation.
C6_AbortWhileToolPending ==
  [][\A i \in Inv :
       (closedAt[i] = "pendingTool" /\ pc[i] = "waiting" /\ pc'[i] # "waiting") =>
         /\ pc'[i] = "done"
         /\ pendingTools'[cur[i]] = CancelPendingTools(pendingTools[cur[i]])
         /\ taskState'[cur[i]] = "input-required"
         /\ Cardinality(FinalsBy(busEvents', ExecBus(i), "abort")) = 1]_vars

\* the cancelTask invocation c starts in this step
CancelStarts(c) == cpc[c] = "idle" /\ cpc'[c] # "idle"

\* C7: cancelTask on a known, non-terminal task marks all pending tool calls
\* cancelled, then sets the state to canceled, then publishes one final status
\* event with state canceled, and only then saves the checkpoint holding state
\* canceled (when a store is configured).  A step that fails shows the order:
\* nothing after it has happened.
C7_CancelOrder ==
  [][\A c \in Can :
       LET t == ctid'[c]
           inst == tasks[t]
           canceledEvent == StatusEvent(CancelBus(c), t, contextId[inst], "canceled", TRUE,
                                       "canceled")
       IN
       /\ (CancelStarts(c) /\ inst # NoTask /\ ~Terminal(taskState[inst])) =>
            /\ store' = store
            /\ cfault'[c] = "none" =>
                 /\ pendingTools' = [pendingTools EXCEPT ![inst] = CancelPendingTools(@)]
                 /\ taskState' = [taskState EXCEPT ![inst] = "canceled"]
                 /\ busEvents' = Publish(busEvents, taskBus[inst], canceledEvent)
                 /\ cpc'[c] = IF hasStore THEN "saving" ELSE "done"
                 /\ hasStore => csnap'[c] = "canceled"
            /\ cfault'[c] = "tools" =>
                 /\ pendingTools' = pendingTools
                 /\ taskState' = taskState
                 /\ FinalsBy(busEvents', CancelBus(c), "canceled") = {}
            /\ cfault'[c] = "publish" =>
                 /\ pendingTools' = [pendingTools EXCEPT ![inst] = CancelPendingTools(@)]
                 /\ taskState' = [taskState EXCEPT ![inst] = "canceled"]
                 /\ FinalsBy(busEvents', CancelBus(c), "canceled") = {}
       /\ (cpc[c] = "saving" /\ cpc'[c] = "done") =>
            /\ Cardinality(FinalsBy(busEvents, CancelBus(c), "canceled")) = 1
            /\ cfault'[c] = "none" =>
                 /\ store' = [store EXCEPT ![ctid[c]] = "canceled"]
                 /\ busEvents' = busEvents
            /\ cfault'[c] # "none" => store' = store]_vars

\* a cancelTask has canceled a task and saved its checkpoint
C7_Witness ==
  \E c \in Can :
    /\ cpc[c] = "done"
    /\ cfault[c] = "none"
    /\ tasks[ctid[c]] # NoTask
    /\ store[ctid[c]] = "canceled"
    /\ FinalsBy(busEvents, CancelBus(c), "canceled") # {}

\* C8: cancelTask on a task whose state is completed, canceled or failed leaves
\* the state, the pending tools and the store unchanged and publishes exactly
\* one final status event carrying that same state.
C8_CancelTerminalIsIdempotent ==
  [][\A c \in Can :
       LET t == ctid'[c]
           inst == tasks[t]
       IN  (CancelStarts(c) /\ inst # NoTask /\ Terminal(taskState[inst])) =>
             /\ taskState' = taskState
             /\ pendingTools' = pendingTools
             /\ store' = store
             /\ cpc'[c] = "done"
             /\ busEvents' = Publish(busEvents, CancelBus(c),
                               StatusEvent(CancelBus(c), t, contextId[inst], taskState[inst],
                                           TRUE, "already"))]_vars

\* C9: cancelTask on a task id that is not in the registry publishes exactly
\* one status event, failed and final, with that task id, does not throw and
\* leaves the registry, the executing set and the store unchanged.
C9_CancelUnknownTask ==
  [][\A c \in Can :
       (CancelStarts(c) /\ tasks[ctid'[c]] = NoTask) =>
         /\ busEvents' = Publish(busEvents, CancelBus(c),
                           StatusEvent(CancelBus(c), ctid'[c], "fresh", "failed", TRUE,
                                       "notfound"))
         /\ cpc'[c] = "done"
         /\ UNCHANGED <<tasks, executingTasks, store, taskState, pendingTools>>]_vars

\* a cancelTask for an unregistered task id has returned
C9_Witness ==
  \E c \in Can :
    /\ cpc[c] = "done"
    /\ tasks[ctid[c]] = NoTask
    /\ Len(busEvents[CancelBus(c)]) = 1

\* C10: a failure inside the cancellation path (cancelling the pending tools,
\* publishing the state change, saving the checkpoint) becomes a published
\* failed status event with final=true; cancelTask never throws.
C10_CancelNeverThrows ==
  \A c \in Can :
    /\ cpc[c] # "threw"
    /\ cfault[c] # "none" =>
         /\ cpc[c] = "done"
         /\ \E k \in DOMAIN busEvents[CancelBus(c)] :
              /\ busEvents[CancelBus(c)][k].state = "failed"
              /\ busEvents[CancelBus(c)][k].final
              /\ busEvents[CancelBus(c)][k].task = ctid[c]

\* saving the checkpoint of a canceled task has failed
C10_Witness ==
  \E c \in Can : cfault[c] = "save" /\ cpc[c] = "done" /\ taskState[tasks[ctid[c]]] = "canceled"


\* C11: a task id is in the executing set exactly while an execute invocation
\* that started a turn-loop for it has not yet returned: it is added in the
\* step that starts the loop and removed in the step that leaves it (normal,
\* aborted, errored); the step that leaves the loop saves no checkpoint.
C11_ExecutingWhileLoopRuns ==
  /\ [](\A t \in TaskIds :
          t \in executingTasks <=> \E i \in Inv : LoopActive(i) /\ tid[i] = t)
  /\ [][\A i \in Inv :
          (LoopActive(i) /\ pc'[i] \notin {"streaming", "waiting"}) => store' = store]_vars

\* a turn-loop has returned with a store configured: the task id is unmarked
\* and the store still holds the checkpoint written at creation
C11_Witness ==
  \E i \in Inv :
    /\ mode[i] = "loop"
    /\ pc[i] = "done"
    /\ hasStore
    /\ executingTasks = {}
    /\ taskState[cur[i]] = "input-required"
    /\ store[tid[i]] = "submitted"


\* C12: execute on a task whose state is already completed, canceled or failed
\* is a no-op: the step that resolves the request to such a Task (found in the
\* registry, just reconstructed from a terminal snapshot, or canceled while its
\* initial checkpoint was being saved) returns and changes neither the state,
\* nor the history, nor the pending tools, nor the executing set, opens no
\* model stream and publishes no event.
C12_ExecuteOnTerminalIsNoOp ==
  [][\A i \in Inv :
       LET inst == tasks[tid'[i]] IN
       /\ (pc[i] = "idle" /\ pc'[i] # "idle" /\ inst # NoTask /\ Terminal(taskState[inst])) =>
            /\ pc'[i] = "done"
            /\ cur'[i] = inst
            /\ UNCHANGED <<taskState, history, pendingTools, executingTasks, modelCalls,
                           scheduled, busEvents>>
       /\ (pc[i] = "reconstructing" /\ pc'[i] # pc[i] /\ faults' = faults /\ Terminal(sdk[i])) =>
            /\ pc'[i] = "done"
            /\ taskState' = [taskState EXCEPT ![i] = sdk[i]]
            /\ UNCHANGED <<history, pendingTools, executingTasks, modelCalls, scheduled,
                           busEvents>>
       /\ (pc[i] = "createSaving" /\ pc'[i] # pc[i] /\ faults' = faults
             /\ Terminal(taskState[i])) =>
            /\ pc'[i] = "done"
            /\ UNCHANGED <<taskState, history, pendingTools, executingTasks, modelCalls,
                           scheduled, busEvents>>]_vars

\* a request for a registered task in state canceled has returned without
\* running anything
C12_Witness ==
  \E i \in Inv :
    /\ pc[i] = "done"
    /\ mode[i] = "none"
    /\ cur[i] # i
    /\ tasks[tid[i]] = cur[i]
    /\ taskState[cur[i]] = "canceled"
    /\ busEvents[ExecBus(i)] = <<>>


\* C13: when execute receives a message for a task that is neither in the
\* registry nor accompanied by a persisted snapshot, and the message carries no
\* valid agent settings, it fails the request: it publishes one failed final
\* status event for that task id (in the context of the message), creates and
\* registers no Task, starts no loop, saves nothing and returns.
C13_SettingsMissing ==
  [][\A i \in Inv, t \in ExecIds :
       (tasks[t] = NoTask /\ ExecStart(i, t, "none", FALSE)) =>
         /\ busEvents' = Publish(busEvents, ExecBus(i),
                           StatusEvent(ExecBus(i), t, MsgContext(i), "failed", TRUE, "error"))
         /\ pc'[i] = "done"
         /\ mode'[i] = "none"
         /\ UNCHANGED <<tasks, executingTasks, store, taskVars, contextId>>]_vars

\* a first message without settings has been refused: the only event of the
\* request is the failed final one, tagged with the context of the message
C13_Witness ==
  \E i \in Inv :
    /\ pc[i] = "done"
    /\ tasks[tid[i]] = NoTask
    /\ MsgContext(i) # SnapshotContext
    /\ busEvents[ExecBus(i)] =
         <<StatusEvent(ExecBus(i), tid[i], MsgContext(i), "failed", TRUE, "error")>>


\* the input-required events with final=true of an event burst
FinalInputRequired(evs) ==
  SelectSeq(evs, LAMBDA e : e.final /\ e.state = "input-required")

\* C14: for a new task T1 in context C1 whose model turn requests no tool
\* call, execute publishes a working status and afterwards exactly one
\* input-required status with final=true, every published event is tagged with
\* T1 and C1, and the state after the invocation is input-required, never
\* completed.  Stated for a request that built its Task and that no other
\* request, no cancelTask and no failure interferes with; the client may
\* close the connection.
C14_ScenarioA ==
  [][\A i \in Inv :
       LET evs == busEvents'[ExecBus(i)] IN
       (/\ LoopReturns(i)
        /\ RanAlone(i)
        /\ faults' = 0
        /\ tasks[tid[i]] = i
        /\ scheduled[i] = <<>>
        /\ reqs[i] = <<>>) =>
         /\ evs[1].state = "working"
         /\ ~evs[1].final
         /\ Len(FinalInputRequired(evs)) = 1
         /\ Len(Finals(evs)) = 1
         /\ evs[Len(evs)].final
         /\ \A k \in DOMAIN evs : evs[k].task = tid[i] /\ evs[k].ctx = MsgContext(i)
         /\ taskState'[i] = "input-required"]_vars

\* the first message of a new task has been answered without a tool call: a
\* working status, a content chunk, the final input-required status
C14_Witness ==
  \E i \in Inv :
    /\ pc[i] = "done"
    /\ mode[i] = "loop"
    /\ tasks[tid[i]] = i
    /\ hasStore
    /\ store[tid[i]] = "submitted"
    /\ scheduled[i] = <<>>
    /\ ~aborted[i]
    /\ faults = 0
    /\ taskState[i] = "input-required"
    /\ Len(busEvents[ExecBus(i)]) = 3
    /\ busEvents[ExecBus(i)][3] =
         StatusEvent(ExecBus(i), tid[i], MsgContext(i), "input-required", TRUE, "none")


\* the execute invocation i publishes a final input-required status in this step
PublishesFinalInputRequired(i) ==
  \E b \in Bus : \E k \in DOMAIN busEvents'[b] \ DOMAIN busEvents[b] :
    /\ busEvents'[b][k].by = ExecBus(i)
    /\ busEvents'[b][k].final
    /\ busEvents'[b][k].state = "input-required"

\* a settled tool call of the batch succeeded and its result is not yet fed back
SuccessNotFedBack(inst) ==
  \E k \in DOMAIN pendingTools[inst] : pendingTools[inst][k] = "success"

\* C15 as stated: when the model requests a tool call and the call settles
\* with success, the tool is scheduled, its result is fed back to the model
\* and recorded in the history before the final input-required status event
\* of that invocation is published: no final input-required event is published
\* while a successful result waits to be fed back.
C15_ToolResultBeforeFinal ==
  [][\A i \in Inv : PublishesFinalInputRequired(i) => ~SuccessNotFedBack(cur[i])]_vars

\* C15, amended: unless the client connection has closed before the whole
\* batch settled, a batch holding a successful call is fed back to the model
\* (one more model stream) and recorded in the history in the step that ends
\* the wait, that step publishes nothing, and no final input-required event
\* is published while a successful result waits to be fed back; every tool
\* record was handed to the scheduler.
C15_ScenarioB ==
  [][\A i \in Inv :
       LET inst == cur[i] IN
       /\ (PublishesFinalInputRequired(i) /\ ~aborted[i]) => ~SuccessNotFedBack(inst)
       /\ (pc[i] = "waiting" /\ pc'[i] # "waiting" /\ ~aborted[i] /\ SuccessNotFedBack(inst)) =>
            /\ pc'[i] = "streaming"
            /\ history'[inst] = Append(history[inst], "tools")
            /\ modelCalls'[inst] = modelCalls[inst] + 1
            /\ pendingTools'[inst] = <<>>
            /\ busEvents' = busEvents
       /\ Len(pendingTools[inst]) <= Len(scheduled[inst])]_vars

\* a tool call succeeded, its result went back to the model and into the
\* history, and the invocation then published its final input-required status
C15_Witness ==
  \E i \in Inv :
    /\ pc[i] = "done"
    /\ mode[i] = "loop"
    /\ ~aborted[i]
    /\ Len(scheduled[cur[i]]) = 1
    /\ modelCalls[cur[i]] = 2
    /\ history[cur[i]] = <<"user", "tools">>
    /\ taskState[cur[i]] = "input-required"
    /\ Len(FinalInputRequired(busEvents[ExecBus(i)])) = 1


\* the call s is a save that returned and l is the load of the same task id
\* that began after it, with no other call on the store
SaveThenLoad(s, l) ==
  /\ ops[s].kind = "save"
  /\ ops[s].pc = "done"
  /\ ops[l].kind = "load"
  /\ ops[l].id = ops[s].id
  /\ s \in ops[l].after
  /\ \A o \in Ops \ {s, l} : ops[o].pc = "idle"

\* C16: round-trip fidelity: for every task with a context id, save(task)
\* followed by load(task.id), with no other write in between, returns a task
\* whose state and history equal those saved, and the load extracts exactly
\* the file set of the workspace archive: every file of the archive, and
\* nothing else, is added to the target directory.
C16_RoundTrip ==
  /\ [](\A s, l \in Ops :
          (SaveThenLoad(s, l) /\ ops[l].pc \in {"done", "threw"}
             /\ ops[l].result # "error:io") =>
            /\ ops[l].pc = "done"
            /\ ops[l].result = "ok"
            /\ ops[l].task.id = ops[s].task.id
            /\ ops[l].task.state = ops[s].task.state
            /\ ops[l].task.history = ops[s].task.history
            /\ workspaces[Key(ops[s].task)] \subseteq files[ops[l].dir])
  /\ [][\A s, l \in Ops :
          (SaveThenLoad(s, l) /\ ops[l].pc = "workspace" /\ ops'[l].pc = "done") =>
            files' = [files EXCEPT ![ops[l].dir] = @ \cup workspaces[Key(ops[s].task)]]]_vars

\* C17: index implies snapshot: in every reachable state of the store, also
\* after a save that failed part-way, a task id that has an index entry has a
\* task snapshot under the context the entry names.
C17_IndexImpliesSnapshot ==
  \A t \in TaskIds :
    index[t] # NoContext => taskObjects[<<index[t], t>>] # NoObject

\* C18: load(taskId) for a task id that has an index entry but no task
\* snapshot fails with an inconsistent-state error; it does not answer
\* 'not found'.
C18_MissingSnapshotIsInconsistent ==
  [][\A l \in Ops :
       (/\ ops[l].kind = "load"
        /\ ops[l].pc = "task"
        /\ taskObjects[<<ops[l].ctx, ops[l].id>>] = NoObject
        /\ ops'[l].pc # "task"
        /\ ops'[l].result # "error:io") =>
         /\ ops'[l].pc = "threw"
         /\ ops'[l].result = "error:inconsistent"]_vars

IsPrefix(s, t) == Len(s) <= Len(t) /\ \A k \in DOMAIN s : s[k] = t[k]

Written(o) == {ops[o].writes[k] : k \in DOMAIN ops[o].writes}

\* C19: save writes in the order index entry, task snapshot, workspace archive
\* (only when the working directory is not empty), context log; a save that
\* returns has written the index entry and the snapshot, and every message of
\* the task history is in the context log.
C19_SaveWriteOrder ==
  \A o \in Ops :
    ops[o].kind = "save" =>
      /\ \/ IsPrefix(ops[o].writes, <<"index", "task", "workspace", "log">>)
         \/ IsPrefix(ops[o].writes, <<"index", "task", "log">>)
      /\ ops[o].pc = "done" =>
           /\ {"index", "task"} \subseteq Written(o)
           /\ \A k \in DOMAIN ops[o].task.history :
                \E j \in DOMAIN contextHistory[ops[o].task.contextId] :
                  contextHistory[ops[o].task.contextId][j] = ops[o].task.history[k]

\* C20: idempotent history append: whatever saves have run, the context log
\* never holds two messages with the same message id, also when one saved
\* history itself holds the same id twice.
C20_NoDuplicateInLog ==
  \A c \in Contexts :
    \A j, k \in DOMAIN contextHistory[c] :
      j # k => contextHistory[c][j] # contextHistory[c][k]

Count(log, m) == Cardinality({k \in DOMAIN log : log[k] = m})

NoRepeat(h) == \A j, k \in DOMAIN h : j # k => h[j] # h[k]

\* C21: no lost message: with the store that keeps a context log and no I/O
\* failure, whatever the interleaving of the saves, every message of the
\* history of a save that has returned is in the log of its context, and
\* exactly once when no saved history repeats an id.
C21_NoLostMessage ==
  (variant = "log" /\ faults = 0) =>
    \A o \in Ops :
      (ops[o].kind = "save" /\ ops[o].pc = "done") =>
        \A k \in DOMAIN ops[o].task.history :
          LET log == contextHistory[ops[o].task.contextId]
              m == ops[o].task.history[k]
          IN  /\ Count(log, m) >= 1
              /\ (\A p \in Ops : NoRepeat(ops[p].task.history)) => Count(log, m) = 1

\* what a step appended to a log: the part of the new log after the old one
Appended(old, new) == SubSeq(new, Len(old) + 1, Len(new))

\* the messages of s come in the order they have in h
InOrderOf(s, h) ==
  \A a, b \in DOMAIN s :
    a < b => \E i, j \in DOMAIN h : i < j /\ h[i] = s[a] /\ h[j] = s[b]

\* C22: the context log is append-only and order-preserving: every step of a
\* save leaves the old log of each context as a prefix of the new one, also
\* when reading the existing log failed, and what a save appends comes in the
\* order of the history of its task.
C22_LogAppendOnly ==
  [][\A o \in Ops :
       (ops[o].kind = "save" /\ ops[o].pc = "logWrite" /\ ops'[o].pc = "done") =>
         LET c == ops[o].task.contextId IN
         /\ IsPrefix(contextHistory[c], contextHistory'[c])
         /\ InOrderOf(Appended(contextHistory[c], contextHistory'[c]),
                      ops[o].task.history)
         /\ \A d \in Contexts \ {c} : contextHistory'[d] = contextHistory[d]]_vars

\* C23: save of a task whose context id is missing or empty fails with an
\* error and writes nothing: the call throws at once, and no index entry,
\* snapshot, workspace archive or context log changes in that step.
C23_MissingContextFails ==
  /\ [](\A o \in Ops :
          (ops[o].kind = "save" /\ ops[o].task.contextId = NoContext) =>
            /\ ops[o].pc = "threw"
            /\ ops[o].result = "error:context"
            /\ ops[o].writes = <<>>)
  /\ [][\A o \in Ops :
          (/\ ops[o].pc = "idle"
           /\ ops'[o].kind = "save"
           /\ ops'[o].task.contextId = NoContext) =>
            UNCHANGED <<index, taskObjects, workspaces, contextHistory>>]_vars

\* a save without context id has thrown while the bucket holds a snapshot
C23_Witness ==
  \E o \in Ops :
    /\ ops[o].kind = "save"
    /\ ops[o].task.contextId = NoContext
    /\ ops[o].pc = "threw"
    /\ \E k \in TaskKeys : taskObjects[k] # NoObject

\* C24: load of a task id that has no index entry answers 'not found'
\* (undefined) and raises no error, and has read no snapshot and extracted no
\* workspace: the step that finds the index entry absent ends the call.
C24_NoIndexIsNotFound ==
  [][\A l \in Ops :
       (/\ ops[l].kind = "load"
        /\ ops[l].pc = "index"
        /\ index[ops[l].id] = NoContext
        /\ ops'[l].pc # "index"
        /\ ops'[l].result # "error:io") =>
         /\ ops'[l].pc = "done"
         /\ ops'[l].result = "undefined"
         /\ ops'[l].task = NoSdkTask
         /\ ops'[l].dir = "none"
         /\ files' = files]_vars

\* a load has answered 'not found' for T2 while T1 is stored under an index entry
C24_Witness ==
  \E l \in Ops :
    /\ ops[l].kind = "load"
    /\ ops[l].id = "T2"
    /\ ops[l].pc = "done"
    /\ ops[l].result = "undefined"
    /\ index["T2"] = NoContext
    /\ index["T1"] = "C1"
    /\ taskObjects[<<"C1", "T1">>] # NoObject

\* C25: the no-op store never changes durable state and its load answers as
\* the real store does: a save on it returns in the same step with the index,
\* snapshots, archives, context logs and working directories as they were and
\* no write performed, and a load through it that has returned has the result
\* and the task of a load of the real store for the same task id.
C25_NoOpStore ==
  /\ [][\A o \in Ops, t \in TaskIds, c \in Contexts \cup {NoContext} :
          NoOpSave(o, t, c, <<"m1">>, TRUE) =>
            /\ UNCHANGED <<index, taskObjects, workspaces, contextHistory, files>>
            /\ ops'[o].pc = "done"
            /\ ops'[o].writes = <<>>]_vars
  /\ [](\A a, b \in Ops :
          (/\ ops[a].kind = "load" /\ ops[a].via = "noop"
           /\ ops[b].kind = "load" /\ ops[b].via = "real"
           /\ ops[a].id = ops[b].id
           /\ ops[a].pc \in {"done", "threw"} /\ ops[a].result # "error:io"
           /\ ops[b].pc \in {"done", "threw"} /\ ops[b].result # "error:io") =>
            /\ ops[a].pc = ops[b].pc
            /\ ops[a].result = ops[b].result
            /\ ops[a].task = ops[b].task)

\* a save on the no-op store has returned and a load through it has then
\* returned a stored task
C25_Witness ==
  \E a, b \in Ops :
    /\ ops[a].kind = "save" /\ ops[a].via = "noop" /\ ops[a].pc = "done"
    /\ a \in ops[b].after
    /\ ops[b].kind = "load" /\ ops[b].via = "noop"
    /\ ops[b].pc = "done" /\ ops[b].result = "ok"
    /\ ops[b].task # NoSdkTask

\* C26: reconstruct of a snapshot whose metadata lacks the persisted-state
\* block fails and registers no Task; inside execute the request then
\* publishes exactly one failed final status event, tagged with the task id
\* and the context id of the snapshot, starts no turn-loop, leaves the
\* executing set as it was and returns.
C26_MissingPersistedState ==
  [][\A i \in Inv, t \in ExecIds, settings \in BOOLEAN :
       (tasks[t] = NoTask /\ ExecStart(i, t, "nostate", settings)) =>
         /\ busEvents' = Publish(busEvents, ExecBus(i),
                           StatusEvent(ExecBus(i), t, SnapshotContext, "failed", TRUE, "error"))
         /\ pc'[i] = "done"
         /\ mode'[i] = "none"
         /\ UNCHANGED <<tasks, executingTasks, store, taskVars, contextId>>]_vars

\* the second request came with such a snapshot and a message of another
\* context: its only event is the failed final one in the snapshot's context
C26_Witness ==
  \E i \in Inv :
    /\ pc[i] = "done"
    /\ MsgContext(i) # SnapshotContext
    /\ busEvents[ExecBus(i)] =
         <<StatusEvent(ExecBus(i), tid[i], SnapshotContext, "failed", TRUE, "error")>>

\* C27: checkpointing a Task and reconstructing from the checkpoint gives a
\* registered Task with the same id, context id, lifecycle state and agent
\* settings, whose model session holds the persisted messages in the same
\* order (the text of every text part is kept), with role agent mapped to
\* model and every other role to user.
C27_CheckpointRoundTrip ==
  rt.pc = "registered" =>
    /\ rt.registered = rt.task.id
    /\ rt.runtimeTask.id = rt.task.id
    /\ rt.runtimeTask.contextId = rt.task.contextId
    /\ rt.runtimeTask.taskState = rt.task.taskState
    /\ rt.runtimeTask.agentSettings = rt.task.agentSettings
    /\ Len(rt.session) = Len(rt.task.history)
    /\ \A k \in DOMAIN rt.task.history :
         /\ rt.task.history[k].role = "agent" => rt.session[k].role = "model"
         /\ rt.task.history[k].role # "agent" => rt.session[k].role = "user"
         /\ rt.task.history[k].part.kind = "text" =>
              rt.session[k].text = rt.task.history[k].part.text

\* a Task with an agent message followed by a message of a third role has
\* made the round trip
C27_Witness ==
  /\ rt.pc = "registered"
  /\ rt.task.taskState = "input-required"
  /\ Len(rt.task.history) = 2
  /\ rt.task.history[1].role = "agent"
  /\ rt.task.history[2].role = "tool"
  /\ rt.task.history[1].part.text # rt.task.history[2].part.text

\* createTask, called by the request i, returns normally in this step
CreateTaskReturns(i) ==
  /\ pc[i] \in {"creating", "createSaving"}
  /\ pc'[i] \notin {"creating", "createSaving", "threw"}

\* C28: no Task is created for a request whose settings are absent or
\* malformed; when createTask returns normally the new Task is in state
\* submitted, is the instance registered under its task id and, if a store is
\* configured, an initial checkpoint of it (state submitted) has been saved.
C28_CreateTask ==
  /\ [][\A i \in Inv, t \in ExecIds :
          (tasks[t] = NoTask /\ ExecStart(i, t, "none", FALSE)) =>
            pc'[i] \notin {"creating", "createSaving"}]_vars
  /\ [][\A i \in Inv :
          CreateTaskReturns(i) =>
            /\ taskState[i] = "submitted"
            /\ tasks'[tid[i]] = i
            /\ hasStore => store'[tid[i]] = ToSDKTask("submitted")]_vars

\* C29: whatever commands were typed and events received, the client attaches
\* agent settings to a message exactly when the message carries no task id:
\* a message that starts a new task in a known context carries settings, a
\* message that continues a task does not.
C29_SettingsOnNewTask ==
  sent # NoMessage => (sent.settings <=> sent.taskId = NoId)

\* the requests of a sequence come in the order the model emitted them
Ascending(rs) == \A a, b \in DOMAIN rs : a < b => rs[a] < rs[b]

\* C30: within one iteration of the turn-loop a tool-call request that
\* arrives on the stream is only added to the batch: nothing is scheduled,
\* no tool record appears and nothing is published in that step.  Tool calls
\* are handed to the scheduler only in the step in which the stream of a
\* loop ends, the whole accumulated batch at once and in the order received
\* (a scheduler that fails has taken the first requests of the batch).
\* Every other event is forwarded in the step it arrives: it is published
\* as the newest event of the Task's sink and the batch is left alone.
C30_BatchAfterStream ==
  /\ [][\A i \in Inv :
          (~aborted[i] /\ StreamEvent(i, "tool")) =>
            /\ reqs'[i] = Append(reqs[i], emitted'[1])
            /\ pc'[i] = "streaming"
            /\ UNCHANGED <<scheduled, pendingTools, busEvents>>]_vars
  /\ [][\A inst \in Inv :
          scheduled'[inst] # scheduled[inst] =>
            \E i \in Inv :
              /\ cur[i] = inst
              /\ pc[i] = "streaming"
              /\ \/ /\ pc'[i] = "waiting"
                    /\ scheduled'[inst] = scheduled[inst] \o reqs[i]
                    /\ Len(pendingTools'[inst]) = Len(pendingTools[inst]) + Len(reqs[i])
                 \/ /\ pc'[i] = "done"
                    /\ faults' = faults + 1
                    /\ \E n \in 1..Len(reqs[i]) :
                         /\ scheduled'[inst] = scheduled[inst] \o SubSeq(reqs[i], 1, n)
                         /\ Len(pendingTools'[inst]) = Len(pendingTools[inst]) + n]_vars
  /\ [][\A i \in Inv :
          (~aborted[i] /\ StreamEvent(i, "content")) =>
            /\ busEvents' = Publish(busEvents, taskBus[cur[i]],
                              StatusEvent(ExecBus(i), tid[i], contextId[cur[i]],
                                          taskState[cur[i]], FALSE, "content"))
            /\ pc'[i] = "streaming"
            /\ UNCHANGED <<reqs, scheduled, pendingTools>>]_vars
  /\ [](\A i \in Inv : Ascending(reqs[i]) /\ Ascending(scheduled[i]))

\* a loop received a request, a content event and a second request, and at
\* the end of the stream handed both requests to the scheduler
C30_Witness ==
  \E i \in Inv :
    /\ pc[i] = "waiting"
    /\ mode[i] = "loop"
    /\ reqs[i] = <<1, 2>>
    /\ scheduled[cur[i]] = <<1, 2>>
    /\ pendingTools[cur[i]] = <<"pending", "pending">>
    /\ \E k \in DOMAIN busEvents[ExecBus(i)] : busEvents[ExecBus(i)][k].text = "content"

\* C31: once the cancellation signal of an invocation has fired while it
\* consumes the model stream, the next step of that invocation takes it out
\* of the loop: nothing is handed to the scheduler, no tool record of its
\* Task is pending afterwards, no model stream is opened, the task id leaves
\* the executing set, and the invocation, having returned, never acts again.
C31_AbortDuringStream ==
  /\ [][\A i \in Inv :
          (aborted[i] /\ pc[i] = "streaming") =>
            /\ scheduled'[cur[i]] = scheduled[cur[i]]
            /\ pc'[i] # pc[i] =>
                  /\ pc'[i] = "done"
                  /\ reqs'[i] = <<>>
                  /\ NoPending(pendingTools'[cur[i]])
                  /\ modelCalls' = modelCalls
                  /\ tid[i] \notin executingTasks']_vars
  /\ [][\A i \in Inv : pc[i] = "done" => pc'[i] = "done"]_vars

\* the only request ran a loop, received both tool-call requests, its socket
\* closed during the stream and it returned: nothing was ever scheduled
C31_Witness ==
  /\ pc[1] = "done" /\ pc[2] = "idle"
  /\ mode[1] = "loop"
  /\ aborted[1] /\ closedAt[1] = "other"
  /\ emitted[1] = 2
  /\ scheduled[cur[1]] = <<>>
  /\ modelCalls[cur[1]] = 1
  /\ faults = 0

\* the invocation ends its wait for the batch with its signal not aborted
BatchSettles(i) == pc[i] = "waiting" /\ pc'[i] # "waiting" /\ ~aborted[i]

\* C32: in the step that ends the wait for a settled batch, a model stream is
\* opened if and only if the batch is non-empty and not every call of it is
\* cancelled; then the whole batch is taken (no record is left), the results
\* enter the history and the loop consumes the new stream, publishing nothing.
\* If every call of a non-empty batch was cancelled, the results enter the
\* history, no stream is opened and, unless a collaborator fails in that
\* step, the invocation returns with the task input-required.  If the batch
\* is empty the invocation leaves the loop with no model call and the
\* history as it was.
C32_AfterBatch ==
  [][\A i \in Inv :
       LET inst == cur[i]
           batch == pendingTools[inst]
           fedBack == Len(batch) > 0 /\ \E k \in DOMAIN batch : batch[k] # "cancelled"
       IN  BatchSettles(i) =>
             /\ NoPending(batch)
             /\ (modelCalls'[inst] = modelCalls[inst] + 1) <=> fedBack
             /\ modelCalls'[inst] # modelCalls[inst] + 1 => modelCalls' = modelCalls
             /\ fedBack =>
                   /\ pc'[i] = "streaming"
                   /\ history'[inst] = Append(history[inst], "tools")
                   /\ pendingTools'[inst] = <<>>
                   /\ reqs'[i] = <<>>
                   /\ UNCHANGED <<busEvents, taskState, executingTasks>>
             /\ (Len(batch) > 0 /\ ~fedBack) =>
                   /\ pc'[i] = "done"
                   /\ history'[inst] = Append(history[inst], "tools")
                   /\ faults' = faults => taskState'[inst] = "input-required"
             /\ Len(batch) = 0 =>
                   /\ pc'[i] = "done"
                   /\ history'[inst] = history[inst]]_vars

\* the first batch held a call that was not cancelled and went back to the
\* model, the call of the second batch was cancelled: no third stream, the
\* results of both batches are in the history, the task is input-required
C32_Witness ==
  \E i \in Inv :
    /\ pc[i] = "done"
    /\ mode[i] = "loop"
    /\ ~aborted[i]
    /\ faults = 0
    /\ \A c \in Can : cpc[c] = "idle"
    /\ scheduled[cur[i]] = <<1, 2>>
    /\ modelCalls[cur[i]] = 2
    /\ history[cur[i]] = <<"user", "tools", "tools">>
    /\ taskState[cur[i]] = "input-required"

\* invocation i leaves its turn-loop through the catch block with its signal
\* not aborted: a collaborator failed in this step
LoopFails(i) ==
  /\ mode[i] = "loop"
  /\ pc[i] \in {"streaming", "waiting"}
  /\ pc'[i] \notin {"streaming", "waiting"}
  /\ ~aborted[i]
  /\ faults' = faults + 1

\* the events invocation i publishes in this step that carry the error text
ErrorEvents(i) ==
  {<<b, k>> \in Bus \X (1..(2 * (MaxTools + MaxContent + 4))) :
     /\ k \in DOMAIN busEvents'[b] \ DOMAIN busEvents[b]
     /\ busEvents'[b][k].by = ExecBus(i)
     /\ busEvents'[b][k].text = "error"}

\* C33: when a collaborator fails inside the turn-loop and the signal is not
\* aborted, the invocation returns with no tool record of its Task pending
\* (every record that was pending or had just been registered is cancelled,
\* the settled ones keep their status) and, unless the Task was already
\* failed, the Task is failed and exactly one event carrying the error text
\* is published: final, with state failed, on the Task's sink and as the
\* newest event there.  A Task that was already failed stays failed and no
\* such event is published.
C33_LoopError ==
  [][\A i \in Inv :
       LET inst == cur[i] IN
       LoopFails(i) =>
         /\ pc'[i] = "done"
         /\ NoPending(pendingTools'[inst])
         /\ \A k \in DOMAIN pendingTools'[inst] :
              IF k \in DOMAIN pendingTools[inst] /\ pendingTools[inst][k] # "pending"
                THEN pendingTools'[inst][k] = pendingTools[inst][k]
                ELSE pendingTools'[inst][k] = "cancelled"
         /\ taskState'[inst] = "failed"
         /\ IF taskState[inst] = "failed"
              THEN ErrorEvents(i) = {}
              ELSE /\ Cardinality(ErrorEvents(i)) = 1
                   /\ \A e \in ErrorEvents(i) :
                        /\ e[1] = taskBus[inst]
                        /\ e[2] = Len(busEvents'[e[1]])
                        /\ busEvents'[e[1]][e[2]].final
                        /\ busEvents'[e[1]][e[2]].state = "failed"
                        /\ busEvents'[e[1]][e[2]].task = tid[i]]_vars

\* the scheduler failed after registering a tool call: the call is cancelled,
\* the task is failed and the last event of the request is the final failed
\* status carrying the error
C33_Witness ==
  \E i \in Inv :
    /\ pc[i] = "done"
    /\ mode[i] = "loop"
    /\ ~aborted[i]
    /\ faults = 1
    /\ \A c \in Can : cpc[c] = "idle"
    /\ pendingTools[cur[i]] = <<"cancelled">>
    /\ Len(scheduled[cur[i]]) = 1
    /\ taskState[cur[i]] = "failed"
    /\ LET evs == busEvents[ExecBus(i)] IN
         /\ evs # <<>>
         /\ evs[Len(evs)] = StatusEvent(ExecBus(i), tid[i], contextId[cur[i]], "failed", TRUE, "error")

\* C34: the socket's close listener of an invocation is no longer attached
\* once its cancellation signal has fired or once the invocation has
\* returned (or thrown), whatever path it took.
C34_ListenerRemoved ==
  \A i \in Inv : (aborted[i] \/ pc[i] \in {"done", "threw"}) => ~listening[i]

\* C35: the directory a save archives is the workspace root that the agent
\* settings of the saved task name, and the directory a load extracts into
\* is the root of the loaded task: an archive stored under a task's key
\* never comes from the workspace of another task.
C35_SaveArchivesOwnWorkspace ==
  \A o \in Ops :
    /\ (ops[o].kind = "save" /\ ops[o].dir # "none") => ops[o].dir = Root(ops[o].id)
    /\ (ops[o].kind = "load" /\ ops[o].dir # "none") => ops[o].dir = Root(ops[o].id)

\* C36: the registry never rebinds a task id: once a task id is bound to a
\* Task instance it stays bound to that instance, and a request that joins a
\* running loop delivers its message to the instance whose loop is running.
C36_NoRebinding ==
  /\ [][\A t \in TaskIds : tasks[t] # NoTask => tasks'[t] = tasks[t]]_vars
  /\ [](\A i \in Inv :
          pc[i] = "absorbing" =>
            \E j \in Inv : LoopActive(j) /\ tid[j] = tid[i] /\ cur[j] = cur[i])

\* C37: every final status event that an invocation running a turn-loop
\* publishes is on the event sink that invocation was called with, whatever
\* other request has arrived for the task in the meantime.
C37_FinalOnOwnSink ==
  \A i \in Inv :
    mode[i] = "loop" =>
      \A b \in Bus : \A k \in DOMAIN busEvents[b] :
        (busEvents[b][k].by = ExecBus(i) /\ busEvents[b][k].final) => b = ExecBus(i)

\* request r has been handed to the scheduler
Scheduled(r) == \E inst \in Inv : \E k \in DOMAIN scheduled[inst] : scheduled[inst][k] = r

\* an invocation was aborted or a collaborator failed
Disturbed == faults > 0 \/ \E i \in Inv : aborted[i]

\* C38: every tool-call request the model emits in answer to an accepted
\* user message, whether the message started a loop or was absorbed into a
\* running one, is eventually handed to the scheduler, unless an invocation
\* is aborted or a collaborator fails.
C38_RequestsScheduled ==
  \A r \in 1..MaxTools : (emitted[1] >= r) ~> (Scheduled(r) \/ Disturbed)

\* invocation i leaves its turn-loop in this step with its signal aborted
LoopAborts(i) ==
  /\ mode[i] = "loop"
  /\ pc[i] \in {"streaming", "waiting"}
  /\ pc'[i] \notin {"streaming", "waiting"}
  /\ aborted[i]

\* the events published in this step, as <<sink, position>>
NewEvents ==
  {<<b, k>> \in Bus \X (1..(2 * (MaxTools + MaxContent + 4))) :
     k \in DOMAIN busEvents'[b] \ DOMAIN busEvents[b]}

\* C39: an invocation that leaves its turn-loop while its signal is aborted,
\* whether a collaborator failed in that step or not, returns with no tool
\* record pending and never sets failed: a Task already canceled or failed
\* keeps its state and nothing is published; any other Task becomes
\* input-required and exactly one event is published, the final
\* input-required status carrying the abort message, on the Task's sink.
C39_AbortIsCancellation ==
  [][\A i \in Inv :
       LET inst == cur[i] IN
       LoopAborts(i) =>
         /\ pc'[i] = "done"
         /\ NoPending(pendingTools'[inst])
         /\ IF taskState[inst] \in {"canceled", "failed"}
              THEN /\ taskState'[inst] = taskState[inst]
                   /\ busEvents' = busEvents
              ELSE /\ taskState'[inst] = "input-required"
                   /\ NewEvents = {<<taskBus[inst], Len(busEvents[taskBus[inst]]) + 1>>}
                   /\ busEvents'[taskBus[inst]][Len(busEvents[taskBus[inst]]) + 1] =
                        StatusEvent(ExecBus(i), tid[i], contextId[inst], "input-required",
                                    TRUE, "abort")]_vars

\* the socket of the only request closed while its loop consumed the stream
\* and the stream then threw: the task is input-required, not failed, and the
\* last event of the request is the final status carrying the abort message
C39_Witness ==
  /\ pc[1] = "done" /\ pc[2] = "idle"
  /\ \A c \in Can : cpc[c] = "idle"
  /\ mode[1] = "loop"
  /\ aborted[1]
  /\ faults = 1
  /\ taskState[cur[1]] = "input-required"
  /\ LET evs == busEvents[ExecBus(1)] IN
       /\ evs # <<>>
       /\ evs[Len(evs)].text = "abort"
       /\ evs[Len(evs)].final

\* invocation i has published a final status event
PublishedFinal(i) ==
  \E b \in Bus : \E k \in DOMAIN busEvents[b] :
    busEvents[b][k].by = ExecBus(i) /\ busEvents[b][k].final

====
